---- MODULE Spec2Model ----
(***************************************************************************)
(* Attend: the speech turn pipeline.                                       *)
(*                                                                         *)
(*   RecordingManager._continuous_recording   the capture thread: one      *)
(*       frame per step, appended to the rolling buffer and run through    *)
(*       the VAD state machine, which owns the pipeline tracking fields    *)
(*   AudioRecordingService._process_loop      the processing thread: edge  *)
(*       detection on speech_end_potential, save_speech, process_stt,      *)
(*       reset                                                             *)
(*   InteractionManager._handle_transcription the response run, executed   *)
(*       synchronously on the processing thread                            *)
(*                                                                         *)
(* Time is counted in ticks; a None of the source is the value None for a  *)
(* numeric field and the string "None" for pipeline_state.                 *)
(***************************************************************************)
EXTENDS Integers, Sequences, FiniteSets, TLC

\* ------------------------------------------------------------------ bounds
\* the clock stops at MaxTime; a frame arrives 1..MaxDt ticks after the last
MaxTime == 10
MaxDt == 2
\* a generated response body has at most MaxBody tokens
MaxBody == 4

\* --------------------------------------------------------------- constants
None == -1
speech_start_threshold == 2
speech_end_threshold == 2
buffer_size == 4
\* int((speech_end_threshold*rate)//chunk): frames in one end threshold
backoff_frames == 2

VadResults == {"none", "start", "end", "both"}
HasStart(vad) == vad \in {"start", "both"}
HasEnd(vad) == vad \in {"end", "both"}

VARIABLES
    now,                      \* time.time()
    audio_buffer,             \* deque(maxlen=buffer_size) of frames
    chunk_times,              \* deque(maxlen=buffer_size) of timestamps
    speech_start_time,
    speech_end_time,
    speech_start_potential,
    speech_end_potential,
    speech_started,
    speech_detected,
    speech_ended,
    is_recording,             \* the capture loop runs while this flag is set
    current_pipeline_id,
    pipeline_state,           \* "None", "false", "confirmed", "cancelled"
    pipeline_processing,
    listening,                \* a recording listener is registered (add_event_listener)
    events_received,          \* the events that listener received, in order
    emitted,                  \* the events emitted by the latest frame
    script_pos,               \* position in a scripted VAD sequence, -1 when unscripted
    script_mark,              \* arrival time of the latest scripted start or end
    false_pipeline,           \* id of the pipeline most recently marked 'false'
    ppc,                      \* position of the processing thread
    previous_speech_end_potential,
    pipeline_id,              \* _process_loop: local pipeline_id
    sv_start_time,            \* save_speech: local start_time
    sv_end_time,              \* save_speech: local end_time
    speech_data,              \* save_speech: local speech_data, the extracted slice
    \* InteractionManager and its AudioProcessor / TTSProcessor
    messages,
    messages_tentative,
    messages_aliased,         \* messages and messages_tentative are one list object
    json_processed,
    current_response,
    current_mode,
    queued_audio,
    played,                   \* what was written to the output sink, in order
    tts_calls,                \* the arguments of process_tts in this response run, in call order
    finished_pipeline,        \* id of the pipeline whose response run completed as confirmed
    \* locals of _handle_transcription
    response,                 \* the deltas of the stream not yet consumed
    accumulated_response,
    accumulated_assistant_response,
    response_type_known,
    response_type,
    assistant_response_start_reached,
    assistant_response_end_reached,
    n_identified_sentences,
    sentence,                 \* the sentence being sent to process_tts
    audio_data,
    \* AudioProcessor, statement by statement
    queue_lock,               \* "free" or the thread that holds AudioProcessor.queue_lock
    playback_complete,        \* the Event InteractionManager.playback_complete is set
    sink,                     \* the chunks given to output_stream.write, in order
    apc,                      \* position of each thread inside the AudioProcessor
    flush_list,               \* play_queued_audio: the list object a thread iterates
    flush_pos,                \* play_queued_audio: entries of that list it has played
    chunk_pos,                \* play_audio_now: chunks of the entry it has written
    n_queued,                 \* number of queue_audio calls that have appended
    dropped,                  \* the entries that a false end removed from the queue
    output_stream,            \* AudioProcessor._output_stream: "none" or "open"
    failed,                   \* the entries whose playback ended in a write error
    is_running,               \* per service: the flag of start and stop
    processing_thread,        \* per service: the latest processing thread, or None
    thread_state,             \* per service: "loop", "join" or "dead" for each thread created
    lpc,                      \* per service: position of the caller of start and stop
    listeners,                \* EventEmitter._listeners: per event, how often each callback is held
    calls,                    \* per callback, the arguments of its calls by the latest emit
    hpc,                      \* position of the capture thread in _handle_speech_ended
    parse_log,                \* the texts parse_accumulated_response was run on, in order
    stt_pipeline              \* the pipeline of the latest request process_stt made

smVars == <<speech_start_time, speech_end_time, speech_start_potential,
            speech_end_potential, speech_started, speech_detected, speech_ended>>
plVars == <<current_pipeline_id, pipeline_state, pipeline_processing>>
bufVars == <<audio_buffer, chunk_times>>
errVars == <<output_stream, failed>>
audVars == <<queue_lock, playback_complete, sink, apc, flush_list, flush_pos, chunk_pos,
             n_queued, dropped, errVars>>
svcVars == <<is_running, processing_thread, thread_state, lpc>>
evVars == <<listening, events_received, emitted, script_pos, script_mark, false_pipeline,
            audVars, is_recording, svcVars, listeners, calls, hpc, parse_log>>
procVars == <<ppc, previous_speech_end_potential, pipeline_id, sv_start_time, sv_end_time,
              speech_data>>
intVars == <<messages, messages_tentative, messages_aliased, json_processed,
             current_response, current_mode, queued_audio, played>>
runVars == <<response, accumulated_response, accumulated_assistant_response,
             response_type_known, response_type, assistant_response_start_reached,
             assistant_response_end_reached, n_identified_sentences, sentence, audio_data>>
logVars == <<tts_calls, finished_pipeline, stt_pipeline>>
vars == <<now, bufVars, smVars, plVars, evVars, procVars, intVars, runVars, logVars>>

\* ------------------------------------------------------- rolling buffer
\* variant: a deque without maxlen
DequeAppend_NoEvict(q, x) ==
    Append(q, x)

\* deque.append with maxlen: the oldest entry is dropped on overflow
DequeAppend(q, x) ==
    IF Len(q) >= buffer_size THEN Append(Tail(q), x) ELSE Append(q, x)

\* ------------------------------------------------- response text tokens
\* A response text is a sequence of tokens; a delta is a piece of it.
HdrAssistant == "{\"outputs\":{\"assistant_response\""
HdrNextMode == "{\"outputs\":{\"next_mode\""
ValueOpen == ":\""
Quote == "\""
ActivityDescription == ",\"activity_description\":\"focus\""
Close == "}}"
Terminators == {".", "?", "!"}
Closers == {Quote, Close}

RECURSIVE Flatten(_)
Flatten(deltas) ==
    IF deltas = <<>> THEN <<>> ELSE Head(deltas) \o Flatten(Tail(deltas))

Contains(text, tok) == \E i \in 1..Len(text) : text[i] = tok

\* re.search(r'"outputs"\s*:\s*{\s*"(\w+)"', accumulated_response)
MatchOutputs(text) == Contains(text, HdrAssistant) \/ Contains(text, HdrNextMode)

\* match.group(1) of the leftmost match
MatchGroup1(text) ==
    LET i == CHOOSE i \in 1..Len(text) :
                 /\ text[i] \in {HdrAssistant, HdrNextMode}
                 /\ \A j \in 1..(i - 1) : text[j] \notin {HdrAssistant, HdrNextMode}
    IN IF text[i] = HdrAssistant THEN "assistant_response" ELSE "next_mode"

\* re.search(r'"outputs"\s*:\s*{\s*"assistant_response"\s*:\s*"', accumulated_response)
MatchAssistantStart(text) ==
    \E i \in 1..(Len(text) - 1) : text[i] = HdrAssistant /\ text[i + 1] = ValueOpen

\* re.search(r'.*"', accumulated_assistant_response)
MatchQuote(text) == Contains(text, Quote) \/ Contains(text, ValueOpen)

\* ---------------------------------------------------- nltk.sent_tokenize
\* Punkt on plain words: a sentence ends at a terminator, together with the
\* closing punctuation right after it, when whitespace and a further token
\* follow; the last sentence runs to the end of the right-stripped text.
RECURSIVE SkipSpaces(_, _)
SkipSpaces(text, i) ==
    IF i <= Len(text) /\ text[i] = " " THEN SkipSpaces(text, i + 1) ELSE i

RECURSIVE SkipClosers(_, _)
SkipClosers(text, i) ==
    IF i <= Len(text) /\ text[i] \in Closers THEN SkipClosers(text, i + 1) ELSE i

RECURSIVE RStrip(_)
RStrip(text) ==
    IF text # <<>> /\ text[Len(text)] = " " THEN RStrip(SubSeq(text, 1, Len(text) - 1)) ELSE text

\* index of the last token of the sentence that ends at the terminator at i
SentenceEnd(text, i) == SkipClosers(text, i + 1) - 1

IsSentenceBreak(text, i) ==
    /\ text[i] \in Terminators
    /\ LET e == SentenceEnd(text, i)
       IN /\ e < Len(text)
          /\ text[e + 1] = " "
          /\ SkipSpaces(text, e + 1) <= Len(text)

RECURSIVE SentencesFrom(_, _)
SentencesFrom(text, first) ==
    LET breaks == {i \in first..Len(text) : IsSentenceBreak(text, i)}
    IN IF breaks = {}
       THEN <<SubSeq(text, first, Len(text))>>
       ELSE LET i == CHOOSE i \in breaks : \A j \in breaks : i <= j
                e == SentenceEnd(text, i)
            IN <<SubSeq(text, first, e)>> \o SentencesFrom(text, SkipSpaces(text, e + 1))

sent_tokenize(text) ==
    LET t == RStrip(text)
    IN IF t = <<>> THEN <<>> ELSE SentencesFrom(t, 1)

\* ------------------------------------------------- conversation messages
\* the user message for the transcript of the utterance of pipeline pid
UserMessage(pid) == [role |-> "user", content |-> <<"transcript", pid>>]
AssistantMessage(text) == [role |-> "assistant", content |-> text]
\* the history set_mode installs for a mode with a greeting
GreetingMessages ==
    << [role |-> "system", content |-> <<"system_prompt">>],
       [role |-> "user", content |-> <<"Let's get to it.">>],
       [role |-> "assistant", content |-> <<"greeting">>] >>

\* json.loads(current_response) gives outputs with next_mode and activity_description
IsModeSwitchJson(text) ==
    /\ Len(text) = 6
    /\ text[1] = HdrNextMode /\ text[2] = ValueOpen /\ text[4] = Quote
    /\ text[5] = ActivityDescription /\ text[6] = Close

\* variant: a next_mode key is enough for a mode switch
parse_accumulated_response_Lenient(cr, msgs, tent, aliased) ==
    IF Contains(cr, HdrNextMode)
    THEN /\ current_mode' = "perform_activity"
         /\ messages' = GreetingMessages
         /\ messages_tentative' = GreetingMessages
         /\ messages_aliased' = FALSE
    ELSE /\ current_mode' = current_mode
         /\ messages' = msgs
         /\ messages_tentative' = tent
         /\ messages_aliased' = aliased

\* InteractionManager.parse_accumulated_response on the current_response cr,
\* with msgs/tent/aliased the histories as its caller left them: a mode switch
\* runs set_mode, which installs the new mode's greeting history.  The flag
\* json_processed, which it sets first, is written by the calling action.
parse_accumulated_response(cr, msgs, tent, aliased) ==
    IF IsModeSwitchJson(cr)
    THEN /\ current_mode' = cr[3]
         /\ messages' = GreetingMessages
         /\ messages_tentative' = GreetingMessages
         /\ messages_aliased' = FALSE
    ELSE /\ current_mode' = current_mode
         /\ messages' = msgs
         /\ messages_tentative' = tent
         /\ messages_aliased' = aliased

\* AudioProcessor.play_queued_audio: every queued entry is written to the sink
play_queued_audio ==
    /\ played' = played \o queued_audio
    /\ queued_audio' = <<>>

\* InteractionManager._handle_false_end
handle_false_end ==
    /\ json_processed' = FALSE
    /\ current_response' = <<>>
    /\ queued_audio' = <<>>
    /\ UNCHANGED <<messages, messages_tentative, messages_aliased, current_mode, played>>

\* InteractionManager._handle_speech_ended
handle_speech_ended ==
    /\ play_queued_audio
    /\ IF ~json_processed
       THEN parse_accumulated_response(current_response, messages_tentative,
                                       messages_tentative, TRUE)
       ELSE UNCHANGED <<messages, messages_tentative, messages_aliased, current_mode>>
    /\ json_processed' = FALSE
    /\ current_response' = <<>>

\* ------------------------------------------------------ event emission
\* EventEmitter.emit: the listeners run on the emitting thread
Dispatch(e) ==
    IF e = "FALSE_END" THEN handle_false_end
    ELSE IF e = "SPEECH_ENDED" THEN handle_speech_ended
    ELSE UNCHANGED intVars

Emit(e) ==
    /\ emitted' = <<e>>
    /\ events_received' = IF listening THEN Append(events_received, e) ELSE events_received
    /\ Dispatch(e)

EmitNothing ==
    /\ emitted' = <<>>
    /\ UNCHANGED <<events_received, intVars>>

\* -------------------------------------------- the VAD state machine
\* variant: the potential start clears the pipeline identity unconditionally
HandlePotentialStart_AlwaysClear(t) ==
    /\ speech_start_time' = t
    /\ speech_start_potential' = TRUE
    /\ speech_end_potential' = FALSE
    /\ Emit("SPEECH_START_POTENTIAL")
    /\ current_pipeline_id' = None
    /\ pipeline_state' = "None"
    /\ pipeline_processing' = FALSE
    /\ UNCHANGED <<speech_end_time, speech_started, speech_detected, speech_ended>>

\* Handle potential start
HandlePotentialStart(t) ==
    /\ speech_start_time' = t
    /\ speech_start_potential' = TRUE
    /\ speech_end_potential' = FALSE
    /\ Emit("SPEECH_START_POTENTIAL")
    /\ IF ~(current_pipeline_id # None /\ pipeline_state = "confirmed" /\ pipeline_processing)
       THEN /\ current_pipeline_id' = None
            /\ pipeline_state' = "None"
            /\ pipeline_processing' = FALSE
       ELSE UNCHANGED plVars
    /\ UNCHANGED <<speech_end_time, speech_started, speech_detected, speech_ended>>

\* variant: the start is confirmed by any none frame, whatever the elapsed time
HandleSpeechStarted_NoThreshold(t) ==
    /\ speech_started' = TRUE
    /\ speech_start_potential' = FALSE
    /\ speech_detected' = TRUE
    /\ Emit("SPEECH_STARTED")
    /\ UNCHANGED <<speech_start_time, speech_end_time, speech_end_potential,
                   speech_ended, plVars>>

\* Speech Started
HandleSpeechStarted(t) ==
    IF t - speech_start_time >= speech_start_threshold
    THEN /\ speech_started' = TRUE
         /\ speech_start_potential' = FALSE
         /\ speech_detected' = TRUE
         /\ Emit("SPEECH_STARTED")
         /\ UNCHANGED <<speech_start_time, speech_end_time, speech_end_potential,
                        speech_ended, plVars>>
    ELSE EmitNothing /\ UNCHANGED <<smVars, plVars>>

\* Handle potential end
HandlePotentialEnd(t) ==
    IF ~speech_end_potential
    THEN /\ speech_end_time' = t
         /\ speech_end_potential' = TRUE
         /\ Emit("SPEECH_END_POTENTIAL")
         /\ current_pipeline_id' = t
         /\ pipeline_state' = "None"
         /\ pipeline_processing' = FALSE
         /\ UNCHANGED <<speech_start_time, speech_start_potential, speech_started,
                        speech_detected, speech_ended>>
    ELSE EmitNothing /\ UNCHANGED <<smVars, plVars>>

\* variant: the end is confirmed but the pipeline is not
HandleSpeechEnded_NoConfirm(t) ==
    IF t - speech_end_time >= speech_end_threshold
    THEN /\ speech_started' = FALSE
         /\ speech_end_potential' = FALSE
         /\ speech_ended' = TRUE
         /\ Emit("SPEECH_ENDED")
         /\ UNCHANGED <<speech_start_time, speech_end_time, speech_start_potential,
                        speech_detected, plVars>>
    ELSE EmitNothing /\ UNCHANGED <<smVars, plVars>>

\* Handle speech ended
HandleSpeechEnded(t) ==
    IF t - speech_end_time >= speech_end_threshold
    THEN /\ speech_started' = FALSE
         /\ speech_end_potential' = FALSE
         /\ pipeline_state' = IF current_pipeline_id # None THEN "confirmed" ELSE pipeline_state
         /\ speech_ended' = TRUE
         /\ Emit("SPEECH_ENDED")
         /\ UNCHANGED <<speech_start_time, speech_end_time, speech_start_potential,
                        speech_detected, current_pipeline_id, pipeline_processing>>
    ELSE EmitNothing /\ UNCHANGED <<smVars, plVars>>

\* variant: the false start leaves the start time recorded
HandleFalseStart_KeepTime ==
    /\ speech_start_potential' = FALSE
    /\ Emit("FALSE_START")
    /\ UNCHANGED <<speech_start_time, speech_end_time, speech_end_potential, speech_started,
                   speech_detected, speech_ended, plVars>>

\* Handle False Start
HandleFalseStart ==
    /\ speech_start_potential' = FALSE
    /\ speech_start_time' = None
    /\ Emit("FALSE_START")
    /\ UNCHANGED <<speech_end_time, speech_end_potential, speech_started,
                   speech_detected, speech_ended, plVars>>

\* variant: the false end leaves the pipeline state alone
HandleFalseEnd_KeepPipeline ==
    /\ speech_end_potential' = FALSE
    /\ speech_end_time' = None
    /\ Emit("FALSE_END")
    /\ UNCHANGED <<speech_start_time, speech_start_potential, speech_started,
                   speech_detected, speech_ended, plVars>>

\* Handle False End
HandleFalseEnd ==
    /\ speech_end_potential' = FALSE
    /\ speech_end_time' = None
    /\ pipeline_state' = IF current_pipeline_id # None /\ pipeline_state # "confirmed"
                         THEN "false" ELSE pipeline_state
    /\ Emit("FALSE_END")
    /\ UNCHANGED <<speech_start_time, speech_start_potential, speech_started,
                   speech_detected, speech_ended, current_pipeline_id, pipeline_processing>>

\* the if/elif chain of the capture loop, for one VAD result at time t
StateMachine(vad, t) ==
    IF HasStart(vad) /\ ~speech_started THEN HandlePotentialStart(t)
    ELSE IF vad = "none" /\ speech_start_potential /\ ~speech_started THEN HandleSpeechStarted(t)
    ELSE IF HasEnd(vad) /\ speech_started THEN HandlePotentialEnd(t)
    ELSE IF vad = "none" /\ speech_started /\ speech_end_potential THEN HandleSpeechEnded(t)
    ELSE IF HasEnd(vad) /\ speech_start_potential /\ ~speech_started THEN HandleFalseStart
    ELSE IF HasStart(vad) /\ speech_started /\ speech_end_potential THEN HandleFalseEnd
    ELSE EmitNothing /\ UNCHANGED <<smVars, plVars>>

\* one iteration of the capture loop: read a frame, append it, classify it
ContinuousRecording(vad, dt) ==
    /\ is_recording
    /\ now + dt <= MaxTime
    /\ now' = now + dt
    /\ audio_buffer' = DequeAppend(audio_buffer, now + dt)
    /\ chunk_times' = DequeAppend(chunk_times, now + dt)
    /\ StateMachine(vad, now + dt)
    /\ false_pipeline' = IF pipeline_state' = "false" /\ pipeline_state # "false"
                         THEN current_pipeline_id ELSE false_pipeline
    /\ UNCHANGED <<listening, audVars, is_recording, svcVars, listeners, calls, hpc,
                   parse_log, procVars, runVars, logVars>>

Frame ==
    /\ script_pos = -1
    /\ \E vad \in VadResults, dt \in 1..MaxDt : ContinuousRecording(vad, dt)
    /\ UNCHANGED <<script_pos, script_mark>>

\* lines 91-96 and 178-181: the input stream is not active or stream.read
\* raises; the handler clears is_recording and leaves the loop
ReadError ==
    /\ is_recording
    /\ is_recording' = FALSE
    /\ UNCHANGED <<now, bufVars, smVars, plVars, listening, events_received, emitted,
                   script_pos, script_mark, false_pipeline, audVars, svcVars, listeners,
                   calls, hpc, parse_log, procVars, intVars, runVars, logVars>>

\* ------------------------------------------------------------ save_speech
Min(a, b) == IF a < b THEN a ELSE b
Max(a, b) == IF a > b THEN a ELSE b

\* first index i (1-based) of times, from index lo on, with P(times[i]); 0 if none
FirstAtLeast(times, lo, bound) ==
    LET hits == {i \in lo..Len(times) : times[i] >= bound}
    IN IF hits = {} THEN 0 ELSE CHOOSE i \in hits : \A j \in hits : i <= j

FirstAfter(times, lo, bound) ==
    LET hits == {i \in lo..Len(times) : times[i] > bound}
    IN IF hits = {} THEN 0 ELSE CHOOSE i \in hits : \A j \in hits : i <= j

\* start_idx of the slice, as a 0-based Python index
StartIdx(times, start_time) ==
    LET i == FirstAtLeast(times, 1, start_time)
    IN IF i = 0 THEN 0 ELSE Max(0, (i - 1) - backoff_frames)

\* end_idx of the slice (exclusive, 0-based)
EndIdx(times, start_idx, end_time) ==
    LET i == FirstAfter(times, start_idx + 1, end_time)
    IN IF i = 0 THEN Len(times) ELSE Min(Len(times), (i - 1) + 1)

\* audio_buffer_list[start_idx:end_idx]
Slice(buf, start_idx, end_idx) ==
    IF end_idx <= start_idx THEN <<>> ELSE SubSeq(buf, start_idx + 1, end_idx)

ExtractSpeech(buf, times, start_time, end_time) ==
    LET s == StartIdx(times, start_time)
        e == EndIdx(times, s, end_time)
    IN Slice(buf, s, e)

\* ----------------------------------------------------- the processing loop
\* lines 359-361: rising edge of speech_end_potential
ProcessLoopEdge ==
    /\ ppc = "poll"
    /\ IF speech_end_potential /\ ~previous_speech_end_potential
       THEN /\ pipeline_id' = current_pipeline_id
            /\ ppc' = "save"
       ELSE /\ pipeline_id' = pipeline_id
            /\ ppc' = "store_prev"
    /\ UNCHANGED <<now, bufVars, smVars, plVars, evVars, previous_speech_end_potential,
                   sv_start_time, sv_end_time, speech_data, intVars, runVars, logVars>>

\* save_speech, lines 227-233: mark the pipeline as processing, read the times
SaveSpeechBegin ==
    /\ ppc = "save"
    /\ pipeline_processing' = IF current_pipeline_id # None THEN TRUE ELSE pipeline_processing
    /\ sv_start_time' = speech_start_time
    /\ sv_end_time' = IF speech_end_time # None THEN speech_end_time ELSE now
    /\ ppc' = "extract"
    /\ UNCHANGED <<now, bufVars, smVars, current_pipeline_id, pipeline_state, evVars,
                   previous_speech_end_potential, pipeline_id, speech_data, intVars, runVars,
                   logVars>>

\* save_speech, lines 235-256, under buffer_lock; comparing a timestamp with
\* None raises, which ends the processing loop
SaveSpeechExtract ==
    /\ ppc = "extract"
    /\ IF sv_start_time = None /\ Len(chunk_times) > 0
       THEN /\ ppc' = "dead"
            /\ UNCHANGED speech_data
       ELSE /\ speech_data' = ExtractSpeech(audio_buffer, chunk_times, sv_start_time, sv_end_time)
            /\ ppc' = "check_state"
    /\ UNCHANGED <<now, bufVars, smVars, plVars, evVars, previous_speech_end_potential,
                   pipeline_id, sv_start_time, sv_end_time, intVars, runVars, logVars>>

\* variant: the transcription is requested whatever the pipeline state is
ProcessLoopCheckState_NoCheck ==
    /\ ppc = "check_state"
    /\ ppc' = "stt"
    /\ sv_start_time' = None
    /\ sv_end_time' = None
    /\ speech_data' = <<>>
    /\ UNCHANGED <<now, bufVars, smVars, plVars, evVars, previous_speech_end_potential,
                   pipeline_id, intVars, runVars, logVars>>

\* line 365; save_speech has returned and its locals are gone
ProcessLoopCheckState ==
    /\ ppc = "check_state"
    /\ ppc' = IF pipeline_state \notin {"cancelled", "false"} THEN "stt" ELSE "store_prev"
    /\ sv_start_time' = None
    /\ sv_end_time' = None
    /\ speech_data' = <<>>
    /\ UNCHANGED <<now, bufVars, smVars, plVars, evVars, previous_speech_end_potential,
                   pipeline_id, intVars, runVars, logVars>>

\* line 366: process_stt; on success NEW_TRANSCRIPTION is emitted and
\* _handle_transcription runs on this thread, a failure is swallowed
process_stt ==
    /\ ppc = "stt"
    /\ \E ok \in BOOLEAN : ppc' = IF ok THEN "ht_begin" ELSE "store_prev"
    /\ stt_pipeline' = pipeline_id
    /\ UNCHANGED <<now, bufVars, smVars, plVars, evVars, previous_speech_end_potential,
                   pipeline_id, sv_start_time, sv_end_time, speech_data, intVars, runVars,
                   tts_calls, finished_pipeline>>

\* ------------------------------------------------- _handle_transcription
noRecVars == <<now, bufVars, smVars, plVars, evVars, previous_speech_end_potential,
               pipeline_id, sv_start_time, sv_end_time, speech_data>>

\* the streams the LLM collaborator answers with in the full system
Streams ==
    { << <<HdrAssistant>>, <<ValueOpen>>, <<"Hi", ".">>, <<" ", "Bye">>, <<".", Quote, Close>> >>,
      << <<HdrNextMode>>, <<ValueOpen, "perform_activity", Quote, ActivityDescription, Close>> >> }

\* lines 200-213: pipeline check, tentative history
HandleTranscriptionBegin ==
    /\ ppc = "ht_begin"
    /\ IF pipeline_state \in {"cancelled", "false"}
       THEN /\ ppc' = "store_prev"
            /\ UNCHANGED <<messages_tentative, messages_aliased>>
       ELSE /\ messages_tentative' = Append(messages, UserMessage(current_pipeline_id))
            /\ messages_aliased' = FALSE
            /\ ppc' = "ht_create"
    /\ UNCHANGED <<noRecVars, messages, json_processed, current_response, current_mode,
                   queued_audio, played, runVars, logVars>>

\* the state of the locals at line 245; with the empty stream, the state
\* in which a return leaves them
LocalsInit(stream) ==
    /\ response' = stream
    /\ accumulated_response' = <<>>
    /\ accumulated_assistant_response' = <<>>
    /\ response_type_known' = FALSE
    /\ response_type' = "None"
    /\ assistant_response_start_reached' = FALSE
    /\ assistant_response_end_reached' = FALSE
    /\ n_identified_sentences' = 1
    /\ sentence' = <<>>
    /\ audio_data' = <<>>

\* lines 225-245: the completion request; a failure leaves through the except
HandleTranscriptionCreate ==
    /\ ppc = "ht_create"
    /\ \E ok \in BOOLEAN :
         IF ok
         THEN /\ \E stream \in Streams : LocalsInit(stream)
              /\ ppc' = "ht_chunk"
         ELSE /\ ppc' = "store_prev"
              /\ UNCHANGED runVars
    /\ tts_calls' = <<>>
    /\ UNCHANGED <<noRecVars, intVars, finished_pipeline, stt_pipeline>>

\* lines 247-286 and 296-298: one chunk of the stream, up to the TTS request
HandleTranscriptionChunk ==
    /\ ppc = "ht_chunk"
    /\ IF response = <<>>
       THEN /\ ppc' = "ht_finish"
            /\ UNCHANGED runVars
       ELSE IF pipeline_state \in {"cancelled", "false"}
       THEN /\ ppc' = "store_prev"
            /\ LocalsInit(<<>>)
       ELSE LET content == Head(response)
                acc == accumulated_response \o content
                aar == accumulated_assistant_response \o content
                sentences == sent_tokenize(aar)
            IN  /\ response' = Tail(response)
                /\ accumulated_response' = acc
                /\ audio_data' = audio_data
                /\ IF ~response_type_known
                   THEN /\ response_type_known' = MatchOutputs(acc)
                        /\ response_type' = IF MatchOutputs(acc) THEN MatchGroup1(acc)
                                            ELSE response_type
                        /\ ppc' = "ht_chunk"
                        /\ UNCHANGED <<accumulated_assistant_response,
                                       assistant_response_start_reached,
                                       assistant_response_end_reached,
                                       n_identified_sentences, sentence>>
                   ELSE IF response_type = "assistant_response" /\ ~assistant_response_start_reached
                   THEN /\ assistant_response_start_reached' = MatchAssistantStart(acc)
                        /\ ppc' = "ht_chunk"
                        /\ UNCHANGED <<accumulated_assistant_response, response_type_known,
                                       response_type, assistant_response_end_reached,
                                       n_identified_sentences, sentence>>
                   ELSE IF response_type = "assistant_response" /\ ~assistant_response_end_reached
                   THEN /\ accumulated_assistant_response' = aar
                        /\ assistant_response_end_reached' = MatchQuote(aar)
                        /\ IF MatchQuote(aar) \/ Len(sentences) > n_identified_sentences
                           THEN IF n_identified_sentences <= Len(sentences)
                                THEN /\ sentence' = sentences[n_identified_sentences]
                                     /\ ppc' = "ht_tts"
                                ELSE /\ sentence' = sentence     \* IndexError: the except
                                     /\ ppc' = "store_prev"
                           ELSE /\ sentence' = sentence
                                /\ ppc' = "ht_chunk"
                        /\ UNCHANGED <<response_type_known, response_type,
                                       assistant_response_start_reached, n_identified_sentences>>
                   ELSE /\ ppc' = "ht_chunk"
                        /\ UNCHANGED <<accumulated_assistant_response, response_type_known,
                                       response_type, assistant_response_start_reached,
                                       assistant_response_end_reached,
                                       n_identified_sentences, sentence>>
    /\ UNCHANGED <<noRecVars, intVars, logVars>>

\* the bytes synthesized for a sentence, requested while pipeline pid was current
AudioEntry(pid, s) == <<pid, s>>
Owner(entry) == entry[1]

\* TTSProcessor.process_tts, lines 287 and 300
process_tts ==
    /\ ppc = "ht_tts"
    /\ tts_calls' = Append(tts_calls, sentence)
    /\ audio_data' = AudioEntry(current_pipeline_id, sentence)
    /\ ppc' = "ht_queue"
    /\ UNCHANGED <<noRecVars, intVars, finished_pipeline, stt_pipeline, response, accumulated_response,
                   accumulated_assistant_response, response_type_known, response_type,
                   assistant_response_start_reached, assistant_response_end_reached,
                   n_identified_sentences, sentence>>

\* AudioProcessor.queue_audio, lines 289 and 301
queue_audio ==
    /\ ppc = "ht_queue"
    /\ queued_audio' = Append(queued_audio, audio_data)
    /\ ppc' = "ht_play"
    /\ UNCHANGED <<noRecVars, messages, messages_tentative, messages_aliased, json_processed,
                   current_response, current_mode, played, runVars, logVars>>

\* variant: the sentence is counted, the queue is left for the end of the stream
HandleTranscriptionPlay_NoFlush ==
    /\ ppc = "ht_play"
    /\ n_identified_sentences' = IF assistant_response_end_reached
                                 THEN n_identified_sentences
                                 ELSE n_identified_sentences + 1
    /\ ppc' = "ht_chunk"
    /\ UNCHANGED <<noRecVars, intVars, logVars, response, accumulated_response,
                   accumulated_assistant_response, response_type_known, response_type,
                   assistant_response_start_reached, assistant_response_end_reached,
                   sentence, audio_data>>

\* lines 290-293 and 302-305: play if the pipeline is confirmed, count the sentence
HandleTranscriptionPlay ==
    /\ ppc = "ht_play"
    /\ IF pipeline_state = "confirmed"
       THEN play_queued_audio
       ELSE UNCHANGED <<queued_audio, played>>
    /\ n_identified_sentences' = IF assistant_response_end_reached
                                 THEN n_identified_sentences
                                 ELSE n_identified_sentences + 1
    /\ ppc' = "ht_chunk"
    /\ UNCHANGED <<noRecVars, messages, messages_tentative, messages_aliased, json_processed,
                   current_response, current_mode, logVars, response, accumulated_response,
                   accumulated_assistant_response, response_type_known, response_type,
                   assistant_response_start_reached, assistant_response_end_reached,
                   sentence, audio_data>>

\* lines 308-331: the stream is consumed
HandleTranscriptionFinish ==
    /\ ppc = "ht_finish"
    /\ LET said == accumulated_assistant_response # <<>>
           tent == IF said THEN Append(messages_tentative,
                                       AssistantMessage(accumulated_assistant_response))
                   ELSE messages_tentative
           msgs == IF said /\ messages_aliased THEN tent ELSE messages
       IN IF pipeline_state = "confirmed"
          THEN /\ play_queued_audio
               /\ parse_accumulated_response(accumulated_response, tent, tent, TRUE)
               /\ json_processed' = TRUE
               /\ finished_pipeline' = pipeline_id
          ELSE /\ messages_tentative' = tent
               /\ messages' = msgs
               /\ json_processed' = FALSE
               /\ UNCHANGED <<messages_aliased, current_mode, queued_audio, played,
                              finished_pipeline>>
    /\ current_response' = accumulated_response
    /\ ppc' = "store_prev"
    /\ LocalsInit(<<>>)
    /\ UNCHANGED <<noRecVars, tts_calls, stt_pipeline>>

\* line 369; the loop body's local pipeline_id is gone
ProcessLoopStorePrev ==
    /\ ppc = "store_prev"
    /\ previous_speech_end_potential' = speech_end_potential
    /\ pipeline_id' = None
    /\ ppc' = "check_ended"
    /\ UNCHANGED <<now, bufVars, smVars, plVars, evVars, sv_start_time, sv_end_time,
                   speech_data, intVars, runVars, logVars>>

\* line 371
ProcessLoopCheckEnded ==
    /\ ppc = "check_ended"
    /\ ppc' = IF speech_ended THEN "reset" ELSE "poll"
    /\ UNCHANGED <<now, bufVars, smVars, plVars, evVars, previous_speech_end_potential,
                   pipeline_id, sv_start_time, sv_end_time, speech_data, intVars, runVars,
                   logVars>>

\* variant: reset keeps the detection flag and the end time
reset_KeepsDetected ==
    /\ speech_start_time' = None
    /\ speech_start_potential' = FALSE
    /\ speech_end_potential' = FALSE
    /\ speech_started' = FALSE
    /\ speech_ended' = FALSE
    /\ UNCHANGED <<speech_end_time, speech_detected>>

\* RecordingManager.reset
reset ==
    /\ speech_start_time' = None
    /\ speech_end_time' = None
    /\ speech_start_potential' = FALSE
    /\ speech_end_potential' = FALSE
    /\ speech_started' = FALSE
    /\ speech_detected' = FALSE
    /\ speech_ended' = FALSE

\* line 373
ProcessLoopReset ==
    /\ ppc = "reset"
    /\ reset
    /\ ppc' = "poll"
    /\ UNCHANGED <<now, bufVars, plVars, evVars, previous_speech_end_potential,
                   pipeline_id, sv_start_time, sv_end_time, speech_data, intVars, runVars,
                   logVars>>

\* ----------------------------------------------------------- specification
\* RecordingManager.__init__ and AudioRecordingService.__init__
InitRecording ==
    /\ now = 0
    /\ audio_buffer = <<>>
    /\ chunk_times = <<>>
    /\ speech_start_time = None
    /\ speech_end_time = None
    /\ speech_start_potential = FALSE
    /\ speech_end_potential = FALSE
    /\ speech_started = FALSE
    /\ speech_detected = FALSE
    /\ speech_ended = FALSE
    /\ current_pipeline_id = None
    /\ pipeline_state = "None"
    /\ pipeline_processing = FALSE
    /\ events_received = <<>>
    /\ emitted = <<>>
    /\ false_pipeline = None
    /\ previous_speech_end_potential = FALSE
    /\ pipeline_id = None
    /\ sv_start_time = None
    /\ sv_end_time = None
    /\ speech_data = <<>>

\* the threads that call into the AudioProcessor: the processing thread, which
\* runs _handle_transcription, and the capture thread, which runs the handlers
Threads == {"response", "capture"}

\* AudioProcessor.__init__, and the lock and the event InteractionManager gives it
InitAudioProcessor ==
    /\ queue_lock = "free"
    /\ playback_complete = TRUE
    /\ sink = <<>>
    /\ apc = [t \in Threads |-> "idle"]
    /\ flush_list = [t \in Threads |-> <<>>]
    /\ flush_pos = [t \in Threads |-> 0]
    /\ chunk_pos = [t \in Threads |-> 0]
    /\ n_queued = 0
    /\ dropped = {}
    /\ output_stream = "none"
    /\ failed = {}

\* InteractionManager.__init__ followed by set_mode of the initial mode
InitManager ==
    /\ InitAudioProcessor
    /\ hpc = "idle"
    /\ parse_log = <<>>
    /\ messages = GreetingMessages
    /\ messages_aliased = FALSE
    /\ json_processed = FALSE
    /\ current_response = <<>>
    /\ current_mode = "discuss_activities"
    /\ queued_audio = <<>>
    /\ played = <<>>
    /\ tts_calls = <<>>
    /\ finished_pipeline = None

InitInteraction ==
    /\ InitManager
    /\ stt_pipeline = None
    /\ messages_tentative = GreetingMessages

InitLocals ==
    /\ response = <<>>
    /\ accumulated_response = <<>>
    /\ accumulated_assistant_response = <<>>
    /\ response_type_known = FALSE
    /\ response_type = "None"
    /\ assistant_response_start_reached = FALSE
    /\ assistant_response_end_reached = FALSE
    /\ n_identified_sentences = 1
    /\ sentence = <<>>
    /\ audio_data = <<>>

\* the events and the callbacks of the EventEmitter on its own
SpeechEvent == {"SPEECH_STARTED", "SPEECH_ENDED"}
Callbacks == {"callback1", "callback2", "callback3"}

\* the two services, their callers outside start and stop
Services == {"recording", "interaction"}

\* the fields of the services: as constructed, or after start() has returned;
\* the emitter as EventEmitter.__init__ leaves it (the handlers that the
\* interaction manager registers are the ones Dispatch runs)
ServiceFields(running) ==
    /\ listeners = [e \in SpeechEvent |-> [c \in Callbacks |-> 0]]
    /\ calls = [c \in Callbacks |-> <<>>]
    /\ is_running = [s \in Services |-> running]
    /\ processing_thread = [s \in Services |-> IF running THEN 1 ELSE None]
    /\ thread_state = [s \in Services |-> IF running THEN <<"loop">> ELSE <<>>]
    /\ lpc = [s \in Services |-> "idle"]

\* the running service: capture thread and processing thread
Init ==
    /\ is_recording = TRUE
    /\ ServiceFields(TRUE)
    /\ InitRecording
    /\ InitInteraction
    /\ InitLocals
    /\ listening = FALSE
    /\ script_pos = -1
    /\ script_mark = None
    /\ ppc = "poll"

Next ==
    \/ Frame
    \/ ProcessLoopEdge
    \/ SaveSpeechBegin
    \/ SaveSpeechExtract
    \/ ProcessLoopCheckState
    \/ process_stt
    \/ HandleTranscriptionBegin
    \/ HandleTranscriptionCreate
    \/ HandleTranscriptionChunk
    \/ process_tts
    \/ queue_audio
    \/ HandleTranscriptionPlay
    \/ HandleTranscriptionFinish
    \/ ProcessLoopStorePrev
    \/ ProcessLoopCheckEnded
    \/ ProcessLoopReset

Spec == Init /\ [][Next]_vars

\* ---------------------------------------------- the scripted VAD sequence
\* RecordingManager alone, its recording thread started, with a recording
\* listener, fed {start}, none frames spanning more than start_threshold,
\* {end}, none frames spanning more than end_threshold
InitScenario ==
    /\ is_recording = TRUE
    /\ ServiceFields(FALSE)
    /\ InitRecording
    /\ InitInteraction
    /\ InitLocals
    /\ listening = TRUE
    /\ script_pos = 0
    /\ script_mark = None
    /\ ppc = "off"

ScriptedVad == <<"start", "none", "end", "none">>

ScriptedFrame ==
    /\ script_pos \in 0..3
    /\ \E dt \in 1..MaxDt :
         /\ ContinuousRecording(ScriptedVad[script_pos + 1], dt)
         /\ IF script_pos \in {0, 2}
            THEN /\ script_pos' = script_pos + 1
                 /\ script_mark' = now + dt
            ELSE /\ script_mark' = script_mark
                 /\ \E more \in BOOLEAN :
                      script_pos' = IF ~more /\ (now + dt) - script_mark >
                                         (IF script_pos = 1 THEN speech_start_threshold
                                                            ELSE speech_end_threshold)
                                    THEN script_pos + 1 ELSE script_pos

SpecScenario == InitScenario /\ [][ScriptedFrame]_vars

\* ------------------------------------------------- the response run alone
\* _handle_transcription at the head of its chunk loop, for every stream that
\* splits a generated response text into deltas, the scenario stream included
BodyTokens == {"Hi", ".", " "}

RECURSIVE SeqsOfLen(_)
SeqsOfLen(n) ==
    IF n = 0 THEN {<<>>}
    ELSE {Append(b, tok) : b \in SeqsOfLen(n - 1), tok \in BodyTokens}

\* every terminator closes a word
WellFormedBody(b) ==
    \A i \in 1..Len(b) : b[i] \in Terminators => (i > 1 /\ b[i - 1] = "Hi")

Bodies == {b \in UNION {SeqsOfLen(n) : n \in 0..MaxBody} : WellFormedBody(b)}

ResponseTexts ==
    {<<HdrAssistant, ValueOpen>> \o b \o <<Quote, Close>> : b \in Bodies}
    \cup {<<HdrNextMode, ValueOpen, "perform_activity", Quote, ActivityDescription, Close>>}

RECURSIVE Splits(_)
Splits(text) ==
    IF text = <<>> THEN {<<>>}
    ELSE UNION { {<<SubSeq(text, 1, k)>> \o rest : rest \in Splits(SubSeq(text, k + 1, Len(text)))}
                 : k \in 1..Len(text) }

ScenarioStream ==
    << <<HdrAssistant, ValueOpen, "Hi", " ", "there", ".", " ">>,
       <<"How", " ", "are", " ", "you", "?", Quote, Close>> >>

AsmStreams == UNION {Splits(text) : text \in ResponseTexts} \cup {ScenarioStream}

\* a response run at the head of its chunk loop, on one of the given streams
InitRun(streams) ==
    /\ now = 4
    /\ audio_buffer = <<1, 3, 4>>
    /\ chunk_times = <<1, 3, 4>>
    /\ speech_start_time = 1
    /\ speech_end_time = 4
    /\ speech_start_potential = FALSE
    /\ speech_end_potential \in BOOLEAN
    /\ speech_started = speech_end_potential
    /\ speech_detected = TRUE
    /\ speech_ended = ~speech_end_potential
    /\ current_pipeline_id = 4
    /\ pipeline_state = IF speech_end_potential THEN "None" ELSE "confirmed"
    /\ pipeline_processing = TRUE
    /\ events_received = <<>>
    /\ emitted = <<>>
    /\ false_pipeline = None
    /\ is_recording = TRUE
    /\ ServiceFields(TRUE)
    /\ previous_speech_end_potential = FALSE
    /\ pipeline_id = 4
    /\ sv_start_time = None
    /\ sv_end_time = None
    /\ speech_data = <<>>
    /\ InitManager
    /\ stt_pipeline = 4
    /\ messages_tentative = Append(GreetingMessages, UserMessage(4))
    /\ response \in streams
    /\ accumulated_response = <<>>
    /\ accumulated_assistant_response = <<>>
    /\ response_type_known = FALSE
    /\ response_type = "None"
    /\ assistant_response_start_reached = FALSE
    /\ assistant_response_end_reached = FALSE
    /\ n_identified_sentences = 1
    /\ sentence = <<>>
    /\ audio_data = <<>>
    /\ listening = FALSE
    /\ script_pos = -1
    /\ script_mark = None
    /\ ppc = "ht_chunk"

InitAsm == InitRun(AsmStreams)

NextAsm ==
    \/ HandleTranscriptionChunk
    \/ process_tts
    \/ queue_audio
    \/ HandleTranscriptionPlay
    \/ HandleTranscriptionFinish

SpecAsm == InitAsm /\ [][NextAsm]_vars

\* ------------------------------------------ malformed terminal responses
\* texts that json.loads rejects: no JSON at all, a stream that ends inside
\* the spoken field, inside a next_mode decision, or right after the key
MalformedTexts ==
    { <<"invalid json">>,
      <<HdrAssistant, ValueOpen, "Hi", ".">>,
      <<HdrNextMode, ValueOpen, "perform_activity">>,
      <<HdrAssistant>> }

MalformedStreams == UNION {Splits(text) : text \in MalformedTexts}

\* the running service, from a response run on a malformed stream on
SpecMalformed == InitRun(MalformedStreams) /\ [][Next]_vars

\* --------------------------------------- the response run with a failing TTS
\* variant: the failure of the TTS request is raised to _handle_transcription
process_tts_fails_Raises ==
    /\ ppc = "ht_tts"
    /\ tts_calls' = Append(tts_calls, sentence)
    /\ audio_data' = audio_data
    /\ ppc' = "store_prev"
    /\ UNCHANGED <<noRecVars, intVars, finished_pipeline, stt_pipeline, response, accumulated_response,
                   accumulated_assistant_response, response_type_known, response_type,
                   assistant_response_start_reached, assistant_response_end_reached,
                   n_identified_sentences, sentence>>

\* TTSProcessor.process_tts, lines 39 and 52-54: the request raises and None
\* is returned; io.BytesIO(None) is the empty buffer, so the entry has no bytes
process_tts_fails ==
    /\ ppc = "ht_tts"
    /\ tts_calls' = Append(tts_calls, sentence)
    /\ audio_data' = AudioEntry(current_pipeline_id, <<>>)
    /\ ppc' = "ht_queue"
    /\ UNCHANGED <<noRecVars, intVars, finished_pipeline, stt_pipeline, response, accumulated_response,
                   accumulated_assistant_response, response_type_known, response_type,
                   assistant_response_start_reached, assistant_response_end_reached,
                   n_identified_sentences, sentence>>

NextTts ==
    \/ NextAsm
    \/ process_tts_fails

SpecTts == InitAsm /\ [][NextTts]_vars

\* ------------------------------------- the capture loop and its input stream
\* RecordingManager alone, its recording thread started, on an input stream
\* whose reads can fail
NextCapture ==
    \/ Frame
    \/ ReadError

SpecCapture == Init /\ [][NextCapture]_vars

\* ------------------------------------------ the AudioProcessor in detail
\* The queue and the sink statement by statement, with the two threads that
\* call into the AudioProcessor: the response run (queue_audio after each
\* sentence, play_queued_audio when the pipeline is confirmed) and the
\* capture thread (play_queued_audio from _handle_speech_ended, the clear of
\* _handle_false_end).  The bytes of an entry are its number of 1024-byte
\* chunks; its id is its position in the order of the queue_audio calls.
MaxEntries == 3
MaxChunks == 2

QueueEntry(n, c) == [id |-> n, chunks |-> c]

\* everything outside the AudioProcessor
restVars == <<now, bufVars, smVars, plVars, listening, events_received, emitted, script_pos,
              script_mark, false_pipeline, is_recording, svcVars, listeners, calls, hpc,
              parse_log, procVars, messages, messages_tentative,
              messages_aliased, json_processed, current_response, current_mode, runVars,
              logVars>>

\* manager.py lines 289 and 301: the response run calls queue_audio
QueueAudioCall(t) ==
    /\ t = "response"
    /\ apc[t] = "idle"
    /\ n_queued < MaxEntries
    /\ apc' = [apc EXCEPT ![t] = "qa_enter"]
    /\ UNCHANGED <<restVars, errVars, queued_audio, played, queue_lock, playback_complete, sink,
                   flush_list, flush_pos, chunk_pos, n_queued, dropped>>

\* audio.py line 69: with self.queue_lock
QueueAudioAcquire(t) ==
    /\ apc[t] = "qa_enter"
    /\ queue_lock = "free"
    /\ queue_lock' = t
    /\ apc' = [apc EXCEPT ![t] = "qa_locked"]
    /\ UNCHANGED <<restVars, errVars, queued_audio, played, playback_complete, sink, flush_list,
                   flush_pos, chunk_pos, n_queued, dropped>>

\* audio.py line 70 and the end of the with block
QueueAudioAppend(t) ==
    /\ apc[t] = "qa_locked"
    /\ \E c \in 1..MaxChunks :
         queued_audio' = Append(queued_audio, QueueEntry(n_queued + 1, c))
    /\ n_queued' = n_queued + 1
    /\ queue_lock' = "free"
    /\ apc' = [apc EXCEPT ![t] = "idle"]
    /\ UNCHANGED <<restVars, errVars, played, playback_complete, sink, flush_list, flush_pos,
                   chunk_pos, dropped>>

\* manager.py lines 105, 293, 305 and 330: a thread calls play_queued_audio
PlayQueuedCall(t) ==
    /\ apc[t] = "idle"
    /\ apc' = [apc EXCEPT ![t] = "pq_enter"]
    /\ UNCHANGED <<restVars, errVars, queued_audio, played, queue_lock, playback_complete, sink,
                   flush_list, flush_pos, chunk_pos, n_queued, dropped>>

\* variant: the flush starts without taking queue_lock
PlayQueuedAcquire_NoLock(t) ==
    /\ apc[t] = "pq_enter"
    /\ flush_list' = [flush_list EXCEPT ![t] = queued_audio]
    /\ flush_pos' = [flush_pos EXCEPT ![t] = 0]
    /\ apc' = [apc EXCEPT ![t] = "pq_iter"]
    /\ UNCHANGED <<restVars, errVars, queued_audio, played, queue_lock, playback_complete, sink,
                   chunk_pos, n_queued, dropped>>

\* audio.py lines 76-79: the lock is taken, the iteration over the list starts
PlayQueuedAcquire(t) ==
    /\ apc[t] = "pq_enter"
    /\ queue_lock = "free"
    /\ queue_lock' = t
    /\ flush_list' = [flush_list EXCEPT ![t] = queued_audio]
    /\ flush_pos' = [flush_pos EXCEPT ![t] = 0]
    /\ apc' = [apc EXCEPT ![t] = "pq_iter"]
    /\ UNCHANGED <<restVars, errVars, queued_audio, played, playback_complete, sink, chunk_pos,
                   n_queued, dropped>>

\* variant: the flush ends without emptying the queue
PlayQueuedNext_KeepQueue(t) ==
    /\ apc[t] = "pq_iter"
    /\ IF flush_pos[t] < Len(flush_list[t])
       THEN /\ apc' = [apc EXCEPT ![t] = "pn_wait"]
            /\ UNCHANGED queue_lock
       ELSE /\ queue_lock' = "free"
            /\ apc' = [apc EXCEPT ![t] = "idle"]
    /\ UNCHANGED <<restVars, errVars, queued_audio, played, playback_complete, sink, flush_list,
                   flush_pos, chunk_pos, n_queued, dropped>>

\* audio.py lines 79-82: the next entry of the list, or the end of the flush
PlayQueuedNext(t) ==
    /\ apc[t] = "pq_iter"
    /\ IF flush_pos[t] < Len(flush_list[t])
       THEN /\ apc' = [apc EXCEPT ![t] = "pn_wait"]
            /\ UNCHANGED <<queued_audio, queue_lock>>
       ELSE /\ queued_audio' = <<>>
            /\ queue_lock' = "free"
            /\ apc' = [apc EXCEPT ![t] = "idle"]
    /\ UNCHANGED <<restVars, errVars, played, playback_complete, sink, flush_list, flush_pos,
                   chunk_pos, n_queued, dropped>>

\* audio.py line 37: playback_complete.wait()
PlayAudioNowWait(t) ==
    /\ apc[t] = "pn_wait"
    /\ playback_complete
    /\ apc' = [apc EXCEPT ![t] = "pn_clear"]
    /\ UNCHANGED <<restVars, errVars, queued_audio, played, queue_lock, playback_complete, sink,
                   flush_list, flush_pos, chunk_pos, n_queued, dropped>>

\* audio.py lines 38-47: playback_complete.clear(), the buffer over the bytes
PlayAudioNowClear(t) ==
    /\ apc[t] = "pn_clear"
    /\ playback_complete' = FALSE
    /\ output_stream' = "open"
    /\ chunk_pos' = [chunk_pos EXCEPT ![t] = 0]
    /\ apc' = [apc EXCEPT ![t] = "pn_write"]
    /\ UNCHANGED <<restVars, failed, queued_audio, played, queue_lock, sink, flush_list, flush_pos,
                   n_queued, dropped>>

\* the entry a thread is playing
CurrentEntry(t) == flush_list[t][flush_pos[t] + 1]

\* audio.py lines 50-54: one chunk is read and written
PlayAudioNowWrite(t) ==
    /\ apc[t] = "pn_write"
    /\ chunk_pos[t] < CurrentEntry(t).chunks
    /\ sink' = Append(sink, <<CurrentEntry(t).id, chunk_pos[t] + 1>>)
    /\ chunk_pos' = [chunk_pos EXCEPT ![t] = chunk_pos[t] + 1]
    /\ UNCHANGED <<restVars, errVars, queued_audio, played, queue_lock, playback_complete, apc,
                   flush_list, flush_pos, n_queued, dropped>>

\* audio.py lines 52-53 and 63-64: the buffer is exhausted, playback_complete.set()
PlayAudioNowDone(t) ==
    /\ apc[t] = "pn_write"
    /\ chunk_pos[t] = CurrentEntry(t).chunks
    /\ playback_complete' = TRUE
    /\ played' = Append(played, CurrentEntry(t))
    /\ flush_pos' = [flush_pos EXCEPT ![t] = flush_pos[t] + 1]
    /\ apc' = [apc EXCEPT ![t] = "pq_iter"]
    /\ UNCHANGED <<restVars, errVars, queued_audio, queue_lock, sink, flush_list, chunk_pos,
                   n_queued, dropped>>

\* a thread is inside the with block of play_queued_audio
Flushing(t) == apc[t] \in {"pq_iter", "pn_wait", "pn_clear", "pn_write"}

\* manager.py line 98: the capture thread rebinds queued_audio to a new list,
\* without the lock; a list that a flush is iterating is still played
FalseEndClear(t) ==
    /\ t = "capture"
    /\ apc[t] = "idle"
    /\ queued_audio' = <<>>
    /\ dropped' = IF \E u \in Threads : Flushing(u) /\ flush_list[u] = queued_audio
                  THEN dropped
                  ELSE dropped \cup {queued_audio[i].id : i \in 1..Len(queued_audio)}
    /\ UNCHANGED <<restVars, errVars, played, queue_lock, playback_complete, sink, apc, flush_list,
                   flush_pos, chunk_pos, n_queued>>

NextAudio ==
    \E t \in Threads :
       \/ QueueAudioCall(t)
       \/ QueueAudioAcquire(t)
       \/ QueueAudioAppend(t)
       \/ PlayQueuedCall(t)
       \/ PlayQueuedAcquire(t)
       \/ PlayQueuedNext(t)
       \/ PlayAudioNowWait(t)
       \/ PlayAudioNowClear(t)
       \/ PlayAudioNowWrite(t)
       \/ PlayAudioNowDone(t)
       \/ FalseEndClear(t)

SpecAudio == Init /\ [][NextAudio]_vars

\* variant: the error handler closes the stream and leaves playback_complete cleared
PlayAudioNowError_NoSet(t) ==
    /\ apc[t] = "pn_write"
    /\ chunk_pos[t] < CurrentEntry(t).chunks
    /\ output_stream' = "none"
    /\ failed' = failed \cup {CurrentEntry(t).id}
    /\ flush_pos' = [flush_pos EXCEPT ![t] = flush_pos[t] + 1]
    /\ apc' = [apc EXCEPT ![t] = "pq_iter"]
    /\ UNCHANGED <<restVars, queued_audio, played, queue_lock, playback_complete, sink,
                   flush_list, chunk_pos, n_queued, dropped>>

\* audio.py lines 54 and 57-64: output_stream.write raises; the handler closes
\* the stream and clears the reference, the finally block sets
\* playback_complete, and play_audio_now returns to the loop of the flush
PlayAudioNowError(t) ==
    /\ apc[t] = "pn_write"
    /\ chunk_pos[t] < CurrentEntry(t).chunks
    /\ output_stream' = "none"
    /\ playback_complete' = TRUE
    /\ failed' = failed \cup {CurrentEntry(t).id}
    /\ flush_pos' = [flush_pos EXCEPT ![t] = flush_pos[t] + 1]
    /\ apc' = [apc EXCEPT ![t] = "pq_iter"]
    /\ UNCHANGED <<restVars, queued_audio, played, queue_lock, sink, flush_list, chunk_pos,
                   n_queued, dropped>>

\* the AudioProcessor with an output stream whose writes can fail
NextAudioErr ==
    \/ NextAudio
    \/ \E t \in Threads : PlayAudioNowError(t)

SpecAudioErr == Init /\ [][NextAudioErr]_vars

\* ==================================================================
\* Properties
\* ==================================================================
IsPrefix(a, b) == Len(a) <= Len(b) /\ SubSeq(b, 1, Len(a)) = a

\* the positions of the processing thread inside the chunk loop of a response run
RunPositions == {"ht_chunk", "ht_tts", "ht_queue", "ht_play", "ht_finish"}

\* the pipeline the potential start preserves
InFlight == current_pipeline_id # None /\ pipeline_state = "confirmed" /\ pipeline_processing

\* the text of the assistant_response field of a complete response text:
\* what lies between the opening of the value and its closing quote
ResponseField(text) ==
    LET opens == {i \in 1..Len(text) : text[i] = ValueOpen}
    IN IF text = <<>> \/ text[1] # HdrAssistant \/ opens = {} THEN <<>>
       ELSE LET o == CHOOSE i \in opens : \A j \in opens : i <= j
                quotes == {i \in (o + 1)..Len(text) : text[i] = Quote}
                q == IF quotes = {} THEN Len(text) + 1
                     ELSE CHOOSE i \in quotes : \A j \in quotes : i <= j
            IN SubSeq(text, o + 1, q - 1)

ScenarioEvents ==
    <<"SPEECH_START_POTENTIAL", "SPEECH_STARTED", "SPEECH_END_POTENTIAL", "SPEECH_ENDED">>

\* C1: fed {start}, none frames spanning more than start_threshold, {end},
\* none frames spanning more than end_threshold, the manager emits exactly
\* SPEECH_START_POTENTIAL, SPEECH_STARTED, SPEECH_END_POTENTIAL, SPEECH_ENDED
\* in that order, and ends with speech_started false, speech_ended true and
\* its pipeline confirmed.
C1_ScenarioEvents ==
    /\ IsPrefix(events_received, ScenarioEvents)
    /\ script_pos = 4 =>
         /\ events_received = ScenarioEvents
         /\ ~speech_started
         /\ speech_ended
         /\ current_pipeline_id # None
         /\ pipeline_state = "confirmed"

C1_Witness ==
    /\ script_pos = 4
    /\ Len(events_received) = 4
    /\ speech_ended

\* C2: an {end} frame that meets a pending potential start (a {start} frame
\* came and no confirming none frame has) emits exactly FALSE_START and no
\* SPEECH_STARTED, leaves speech_start_potential false and speech_start_time
\* unset, and no pipeline has been created for that start: the pipeline
\* fields are as the start left them, cleared or an older in-flight pipeline.
C2_FalseStart ==
    [][ \A dt \in 1..MaxDt :
          (speech_start_potential /\ ~speech_started /\ ContinuousRecording("end", dt))
          => /\ emitted' = <<"FALSE_START">>
             /\ ~speech_start_potential'
             /\ ~speech_started'
             /\ speech_start_time' = None
             /\ UNCHANGED plVars
             /\ current_pipeline_id' = None \/ InFlight' ]_vars

C2_Witness ==
    /\ emitted = <<"FALSE_START">>
    /\ ~speech_start_potential
    /\ speech_start_time = None
    /\ current_pipeline_id = None

\* C3: a {start} frame in the started state with a potential end pending
\* clears speech_end_potential and speech_end_time, keeps speech_started,
\* emits exactly FALSE_END, and sets the pipeline state to false iff a
\* pipeline exists and is not confirmed; and a pipeline that is confirmed
\* keeps that state for as long as it is the current pipeline.
C3_FalseEnd ==
    [][ /\ \A dt \in 1..MaxDt :
             (speech_started /\ speech_end_potential /\ ContinuousRecording("start", dt))
             => /\ emitted' = <<"FALSE_END">>
                /\ ~speech_end_potential'
                /\ speech_end_time' = None
                /\ speech_started'
                /\ pipeline_state' = IF current_pipeline_id # None /\ pipeline_state # "confirmed"
                                     THEN "false" ELSE pipeline_state
                /\ UNCHANGED <<current_pipeline_id, pipeline_processing>>
        /\ (pipeline_state = "confirmed" /\ current_pipeline_id' = current_pipeline_id)
             => pipeline_state' = "confirmed" ]_vars

C3_Witness ==
    /\ emitted = <<"FALSE_END">>
    /\ speech_started
    /\ ~speech_end_potential
    /\ current_pipeline_id # None
    /\ pipeline_state = "false"

\* C4: while the current pipeline is confirmed and processing, its response
\* run still streaming, a potential end creates no new pipeline: the pipeline
\* id, state and processing flag are left as they are.
C4_NoNewPipelineWhileInFlight ==
    [][ \A dt \in 1..MaxDt :
          (InFlight /\ ppc \in RunPositions /\ pipeline_id = current_pipeline_id
             /\ ContinuousRecording("end", dt) /\ emitted' = <<"SPEECH_END_POTENTIAL">>)
          => UNCHANGED plVars ]_vars

\* C5: a frame carrying start while speech has not started clears the
\* pipeline identity (id, state, processing flag) exactly when it is not the
\* case that a pipeline exists, is confirmed and is processing; otherwise the
\* three fields are left alone.
C5_StartPotentialPipeline ==
    [][ \A vad \in {"start", "both"}, dt \in 1..MaxDt :
          (~speech_started /\ ContinuousRecording(vad, dt))
          => /\ emitted' = <<"SPEECH_START_POTENTIAL">>
             /\ IF InFlight
                THEN UNCHANGED plVars
                ELSE /\ current_pipeline_id' = None
                     /\ pipeline_state' = "None"
                     /\ ~pipeline_processing' ]_vars

C5_Witness ==
    /\ emitted = <<"SPEECH_START_POTENTIAL">>
    /\ speech_start_potential
    /\ speech_start_time = now
    /\ InFlight

\* C6: once the response run of a confirmed pipeline has completed, the
\* pipeline is no longer in flight: a potential start after the completion
\* clears the pipeline identity.
C6_CompletedPipelineCleared ==
    [][ \A vad \in {"start", "both"}, dt \in 1..MaxDt :
          (finished_pipeline # None /\ finished_pipeline = current_pipeline_id
             /\ ppc \notin RunPositions /\ ~speech_started /\ ContinuousRecording(vad, dt))
          => /\ current_pipeline_id' = None
             /\ pipeline_state' = "None" ]_vars

\* a none frame that meets a pending potential before its threshold has elapsed
EarlyNone(t) ==
    \/ speech_start_potential /\ ~speech_started /\ t - speech_start_time < speech_start_threshold
    \/ speech_started /\ speech_end_potential /\ t - speech_end_time < speech_end_threshold

\* C7: SPEECH_STARTED is emitted only by a none frame arriving at least
\* start_threshold after the recorded speech_start_time, SPEECH_ENDED only by
\* a none frame arriving at least end_threshold after speech_end_time; a none
\* frame arriving earlier changes no speech flag or time, no pipeline field,
\* and emits nothing.
C7_ThresholdGating ==
    [][ now' # now =>
          /\ emitted' = <<"SPEECH_STARTED">> =>
               /\ speech_start_time # None
               /\ now' - speech_start_time >= speech_start_threshold
               /\ \E dt \in 1..MaxDt : ContinuousRecording("none", dt)
          /\ emitted' = <<"SPEECH_ENDED">> =>
               /\ speech_end_time # None
               /\ now' - speech_end_time >= speech_end_threshold
               /\ \E dt \in 1..MaxDt : ContinuousRecording("none", dt)
          /\ \A dt \in 1..MaxDt :
               (ContinuousRecording("none", dt) /\ EarlyNone(now'))
               => /\ emitted' = <<>>
                  /\ UNCHANGED <<smVars, plVars>> ]_vars

C7_Witness ==
    /\ emitted = <<>>
    /\ speech_started
    /\ speech_end_potential
    /\ now > speech_end_time
    /\ now - speech_end_time < speech_end_threshold

\* C8: the slice save_speech extracts for a segment that is confirmed starts
\* with a frame stamped at or before the segment's start time and ends with a
\* frame stamped after its end time.
C8_SliceCoversSegment ==
    (ppc = "check_state" /\ pipeline_id # None /\ pipeline_id = current_pipeline_id
       /\ pipeline_state = "confirmed")
    => /\ speech_data # <<>>
       /\ speech_data[1] <= sv_start_time
       /\ speech_data[Len(speech_data)] > sv_end_time

\* C9: the stream of the two deltas '{"outputs":{"assistant_response":"Hi there. '
\* and 'How are you?"}}', consumed to its end on a pipeline never marked
\* false, makes exactly two synthesis calls, "Hi there." then "How are you?".
C9_TwoDeltasTwoCalls ==
    (ppc = "ht_finish" /\ accumulated_response = Flatten(ScenarioStream))
    => tts_calls = << <<"Hi", " ", "there", ".">>, <<"How", " ", "are", " ", "you", "?">> >>

\* C10: at every point of a response run the sentences dispatched so far are
\* a prefix of the tokenization of the text of the response field of the
\* complete response.
C10_DispatchedIsPrefix ==
    ppc \in RunPositions =>
      IsPrefix(tts_calls,
               sent_tokenize(ResponseField(accumulated_response \o Flatten(response))))

\* the user messages of a history that belong to the turn of pipeline pid
TurnMessages(history, pid) ==
    {i \in 1..Len(history) : history[i] = UserMessage(pid)}

\* C11: when the pipeline of a response run is invalidated (marked false)
\* after the run's first sentence dispatch, only that sentence is synthesized,
\* nothing of the turn is played, and the turn's tentative messages are
\* discarded: the committed history never holds that turn's user message,
\* whatever event comes later, a SPEECH_ENDED of another pipeline included.
C11_InvalidatedTurnNotCommitted ==
    (false_pipeline # None /\ Len(tts_calls) = 1 /\ played = <<>>
       /\ ppc \notin RunPositions \cup {"ht_begin", "ht_create"})
    => TurnMessages(messages, false_pipeline) = {}


\* the entries the step writes to the sink
NewlyPlayed == {played'[i] : i \in (Len(played) + 1)..Len(played')}

\* C12: once a pipeline is marked false, zero bytes of its turn's audio are
\* written to the sink: no step plays an entry synthesized for the pipeline
\* that was marked false, an entry whose synthesis was in flight when
\* FALSE_END cleared the queue included.
C12_NoAudioOfFalsifiedTurn ==
    [][ \A e \in NewlyPlayed : Owner(e) # false_pipeline ]_vars

\* C13: an entry is written to the sink only while the pipeline that was
\* current when its sentence was synthesized is the current pipeline and is
\* confirmed; it is never played because a later pipeline became confirmed.
C13_PlayedOnlyForOwnConfirmedPipeline ==
    [][ \A e \in NewlyPlayed :
           Owner(e) = current_pipeline_id' /\ pipeline_state' = "confirmed" ]_vars


\* the processing thread stands at a checkpoint: line 365 of the processing
\* loop, the entry check of _handle_transcription, the check at the head of
\* the chunk loop with a chunk to process
AtCheckpoint ==
    \/ ppc \in {"check_state", "ht_begin"}
    \/ ppc = "ht_chunk" /\ response # <<>>

\* C14: a checkpoint that reads the pipeline state false or cancelled
\* dispatches nothing: the step of the processing thread leaves the run (no
\* STT request, no completion request, no synthesis request follows it) and
\* synthesizes, queues and plays nothing.
C14_InvalidCheckpointStopsRun ==
    [][ (AtCheckpoint /\ now' = now /\ pipeline_state \in {"false", "cancelled"})
        => (ppc' = "store_prev" /\ UNCHANGED <<tts_calls, queued_audio, played>>) ]_vars

\* a response run that was left at the chunk checkpoint after its first sentence
C14_Witness ==
    /\ ppc = "store_prev"
    /\ pipeline_state = "false"
    /\ pipeline_id = current_pipeline_id
    /\ Len(tts_calls) = 1
    /\ played = <<>>


\* the step writes the whole queue to the sink and leaves it empty
Flushes == played' = played \o queued_audio /\ queued_audio' = <<>>

\* C15: the step of the response run that follows the enqueue of a sentence
\* flushes the queue if the pipeline is confirmed, and only then goes back to
\* the head of the chunk loop; and the step in which the pipeline becomes
\* confirmed flushes what is queued, wherever the response run stands.
C15_FlushWhenConfirmed ==
    [][ /\ (ppc = "ht_play" /\ now' = now /\ pipeline_state = "confirmed")
           => (Flushes /\ ppc' = "ht_chunk")
        /\ (pipeline_state # "confirmed" /\ pipeline_state' = "confirmed")
           => Flushes ]_vars

\* mid-stream, pipeline confirmed, the first sentence played, the queue empty
C15_Witness ==
    /\ pipeline_state = "confirmed"
    /\ pipeline_id = current_pipeline_id
    /\ ppc = "ht_chunk"
    /\ response # <<>>
    /\ Len(tts_calls) = 1
    /\ played = <<AudioEntry(current_pipeline_id, tts_calls[1])>>
    /\ queued_audio = <<>>


\* the tentative history at line 322, with the assistant message of the run
TentativeAtCompletion ==
    IF accumulated_assistant_response # <<>>
    THEN Append(messages_tentative, AssistantMessage(accumulated_assistant_response))
    ELSE messages_tentative

\* C16: the step that completes the stream, with the pipeline confirmed,
\* promotes the tentative history and parses the decision (a mode switch
\* installs the greeting history); with the pipeline not confirmed it leaves
\* the committed history as it was and discards the tentative messages of the
\* turn.
C16_CompletionPromotesOrDiscards ==
    [][ (ppc = "ht_finish" /\ now' = now)
        => IF pipeline_state = "confirmed"
           THEN /\ json_processed'
                /\ messages' = IF IsModeSwitchJson(accumulated_response)
                               THEN GreetingMessages ELSE TentativeAtCompletion
           ELSE /\ messages' = messages
                /\ messages_tentative' = messages' ]_vars


\* the response run has deltas of its stream left to consume
MidStream ==
    \/ ppc \in {"ht_tts", "ht_queue", "ht_play"}
    \/ ppc = "ht_chunk" /\ response # <<>>

\* C17: the committed history is replaced by the tentative history only after
\* the stream of the response run is fully consumed: no step taken while the
\* run still has deltas to consume, a SPEECH_ENDED frame of the capture thread
\* included, makes the tentative history the committed one.
C17_NoPromotionMidStream ==
    [][ MidStream => ~(messages' # messages /\ messages' = messages_tentative) ]_vars


\* C18: the committed history never shrinks and is never reordered: in
\* every step (promotion, false end, speech end, decision parsing, a mode
\* switch included) the committed history before the step is a prefix of the
\* committed history after it.
C18_CommittedOnlyGrows ==
    [][ IsPrefix(messages, messages') ]_vars


\* the entries of the list a flushing thread iterates that it has not played
Unplayed(t) == SubSeq(flush_list[t], flush_pos[t] + 1, Len(flush_list[t]))

\* how often the entry with id n occurs in a list of entries
CountIn(entries, n) == Cardinality({i \in 1..Len(entries) : entries[i].id = n})

\* the entries that wait to be played: the rest of the list of a running
\* flush, the queue when no flush runs
WaitingCount(n) ==
    IF \E t \in Threads : Flushing(t)
    THEN CountIn(IF Flushing("response") THEN Unplayed("response") ELSE <<>>, n)
         + CountIn(IF Flushing("capture") THEN Unplayed("capture") ELSE <<>>, n)
    ELSE CountIn(queued_audio, n)

\* entries reach the sink in the order of their queue_audio calls
FifoOrder ==
    \A i, j \in 1..Len(played) : i < j => played[i].id < played[j].id

\* every entry that was enqueued is in exactly one place: played once,
\* waiting to be played, or removed by a false end
NoneLostNonePlayedTwice ==
    \A n \in 1..n_queued :
       CountIn(played, n) + WaitingCount(n) + (IF n \in dropped THEN 1 ELSE 0) = 1

\* the step that ends the flush of thread t: the flush has played every
\* entry of the list once and in order, and the queue is empty
FlushEnd(t) ==
    (apc[t] = "pq_iter" /\ apc'[t] = "idle")
    => /\ queued_audio' = <<>>
       /\ flush_pos[t] = Len(flush_list[t])
       /\ Len(flush_list[t]) <= Len(played)
       /\ SubSeq(played, Len(played) - Len(flush_list[t]) + 1, Len(played)) = flush_list[t]

\* C19: entries are played strictly in enqueue order; a flush writes each
\* entry of the queue exactly once, in FIFO order, and leaves the queue empty;
\* no entry that the producer enqueues while a flush runs is lost or played
\* twice.
C19_FifoFlush ==
    [][ FifoOrder' /\ NoneLostNonePlayedTwice' /\ \A t \in Threads : FlushEnd(t) ]_vars

\* the producer waits for the lock while the flush of the capture thread,
\* which found two entries, has played the first
C19_Witness ==
    /\ apc["response"] = "qa_enter"
    /\ Flushing("capture")
    /\ Len(flush_list["capture"]) = 2
    /\ flush_pos["capture"] = 1
    /\ Len(played) = 1

\* the chunks of a list of entries, entry by entry
RECURSIVE ChunksOf(_)
ChunksOf(entries) ==
    IF entries = <<>> THEN <<>>
    ELSE [k \in 1..Head(entries).chunks |-> <<Head(entries).id, k>>] \o ChunksOf(Tail(entries))

\* a thread is between playback_complete.clear() and playback_complete.set()
InPlayback(t) == apc[t] = "pn_write"

\* the chunks written of the entry whose playback is in progress
PartialChunks ==
    IF \E t \in Threads : InPlayback(t)
    THEN LET t == CHOOSE u \in Threads : InPlayback(u)
         IN [k \in 1..chunk_pos[t] |-> <<CurrentEntry(t).id, k>>]
    ELSE <<>>

\* C20: two flush calls never interleave their writes: at most one playback
\* is in progress, and the sink holds the chunks of the played entries, entry
\* by entry, followed by the chunks written so far of the entry being played.
C20_NoInterleavedWrites ==
    /\ Cardinality({t \in Threads : InPlayback(t)}) <= 1
    /\ sink = ChunksOf(played) \o PartialChunks

\* the capture thread is half way through an entry of two chunks while the
\* response thread has called play_queued_audio and waits for the lock
C20_Witness ==
    /\ InPlayback("capture")
    /\ CurrentEntry("capture").chunks = 2
    /\ chunk_pos["capture"] = 1
    /\ apc["response"] = "pq_enter"


\* C21: queue_audio never waits: a thread that has called queue_audio can
\* take the lock while the other thread is writing an entry to the sink; it
\* is never held up by a playback that a flush has in progress.
C21_EnqueueNeverWaits ==
    \A t \in Threads :
       apc[t] = "qa_enter" => ~(\E u \in Threads : queue_lock = u /\ InPlayback(u))


\* C22: the step in which a write to the sink fails closes the output stream
\* and clears its reference, sets playback_complete again and returns to the
\* loop of the flush, which still holds the lock (nothing is raised to the
\* caller); the next playback recreates the stream; and the flush ends only
\* when every entry of its list was played or has failed.
C22_PlaybackErrorContained ==
    [][ \A t \in Threads :
          /\ (apc[t] = "pn_write" /\ failed' # failed)
             => /\ output_stream' = "none"
                /\ playback_complete'
                /\ apc'[t] = "pq_iter"
                /\ queue_lock' = t
          /\ (apc[t] = "pn_clear" /\ apc'[t] = "pn_write") => output_stream' = "open"
          /\ (apc[t] = "pq_iter" /\ apc'[t] = "idle")
             => /\ queued_audio' = <<>>
                /\ \A i \in 1..Len(flush_list[t]) :
                      \/ flush_list[t][i].id \in failed
                      \/ CountIn(played, flush_list[t][i].id) = 1 ]_vars

\* a flush whose first entry failed has played its second entry on a new stream
C22_Witness ==
    /\ failed = {1}
    /\ Len(played) = 1
    /\ played[1].id = 2
    /\ output_stream = "open"
    /\ playback_complete
    /\ flush_list["capture"] = queued_audio
    /\ Len(flush_list["capture"]) = 2
    /\ flush_pos["capture"] = 2


\* C23: the capture thread never blocks in the delivery of its events: it is
\* never between playback_complete.clear() and set(), writing queued audio to
\* the sink, and never waiting for queue_lock while the flush of the other
\* thread holds it for a playback.
C23_CaptureThreadNeverBlocks ==
    /\ ~InPlayback("capture")
    /\ ~(apc["capture"] = "pq_enter" /\ queue_lock = "response" /\ InPlayback("response"))


\* C24: an error while reading a frame never ends the capture loop: the loop
\* is running in every reachable state.
C24_CaptureLoopSurvivesReadError ==
    is_recording


\* the audio of the response run in the order it was produced: played,
\* queued, and returned by process_tts but not yet queued
RunAudio ==
    played \o queued_audio \o (IF ppc = "ht_queue" THEN <<audio_data>> ELSE <<>>)

\* the i-th audio of the run is the audio of the i-th sentence sent to
\* process_tts, or has no bytes
AudioFollowsCalls(audio) ==
    /\ Len(audio) = Len(tts_calls)
    /\ \A i \in 1..Len(audio) : audio[i][2] \in {tts_calls[i], <<>>}

\* C25: a synthesis request, failed or not, returns to the response run,
\* which queues its result and goes on; the audio played, queued and in hand
\* follows the sentences sent for synthesis one by one and in order, a failed
\* sentence contributing no bytes; with the pipeline confirmed nothing stays
\* queued once the run is over.
C25_SynthesisFailureNotFatal ==
    [][ /\ ppc = "ht_tts" => (ppc' = "ht_queue" /\ tts_calls' = Append(tts_calls, sentence))
        /\ AudioFollowsCalls(RunAudio)'
        /\ (ppc' = "store_prev" /\ pipeline_state = "confirmed" /\ ppc = "ht_finish")
           => queued_audio' = <<>> ]_vars

\* the first sentence failed, the second was synthesized and played after it
C25_Witness ==
    /\ pipeline_state = "confirmed"
    /\ Len(tts_calls) = 2
    /\ played = <<AudioEntry(current_pipeline_id, <<>>),
                  AudioEntry(current_pipeline_id, tts_calls[2])>>
    /\ queued_audio = <<>>


\* C26: when the completion request fails, the handler returns without
\* raising (the processing loop goes on), nothing was synthesized, queued or
\* played for the turn, the committed history is untouched and the tentative
\* history is the committed history followed by the user message of the turn.
C26_FailedRequestAbortsTurnOnly ==
    [][ (ppc = "ht_create" /\ ppc' = "store_prev")
        => /\ tts_calls' = <<>>
           /\ UNCHANGED <<queued_audio, played, messages>>
           /\ \E pid \in 1..MaxTime :
                messages_tentative' = Append(messages', UserMessage(pid)) ]_vars


\* the number of assistant messages of a history
AssistantCount(history) ==
    Cardinality({i \in 1..Len(history) : history[i].role = "assistant"})

\* C27: a malformed terminal response is no structured decision: the step
\* that completes a malformed stream returns to the processing loop, leaves
\* the mode as it is and, when no text entered the spoken field, adds no
\* assistant message; the SPEECH_ENDED step that parses a malformed
\* current_response leaves the mode as it is too.
C27_MalformedIsNoDecision ==
    [][ /\ (ppc = "ht_finish" /\ now' = now /\ accumulated_response \in MalformedTexts)
           => /\ ppc' = "store_prev"
              /\ current_mode' = current_mode
              /\ ResponseField(accumulated_response) = <<>>
                 => /\ AssistantCount(messages_tentative') = AssistantCount(messages_tentative)
                    /\ AssistantCount(messages') <= AssistantCount(messages_tentative)
        /\ (now' # now /\ current_response \in MalformedTexts)
           => current_mode' = current_mode ]_vars

\* after a turn whose response was malformed, the mode is the initial one and
\* the response run of a later pipeline has had its first sentence played
C27_Witness ==
    /\ finished_pipeline # None
    /\ finished_pipeline # 4
    /\ current_mode = "discuss_activities"
    /\ Len(played) = 2
    /\ Owner(played[2]) = finished_pipeline
    /\ \E i \in 1..Len(messages) : messages[i] = UserMessage(4)


\* C28: in every reachable state, if speech_end_time is set then
\* speech_start_time is set and speech_end_time >= speech_start_time.
C28_EndTimeAfterStartTime ==
    speech_end_time # None
    => (speech_start_time # None /\ speech_end_time >= speech_start_time)


\* the buffer and its timestamps are consistent: equal length at most
\* buffer_size, entry by entry the same frame, timestamps in capture order
BufferConsistent ==
    /\ Len(audio_buffer) = Len(chunk_times)
    /\ Len(audio_buffer) <= buffer_size
    /\ \A i \in 1..Len(audio_buffer) : audio_buffer[i] = chunk_times[i]
    /\ \A i, j \in 1..Len(chunk_times) : i < j => chunk_times[i] <= chunk_times[j]

\* C29: after every step the buffer and its timestamps are consistent; a
\* frame step appends the new frame to both, evicting exactly the oldest
\* frame when the buffer is full; the steps of the processing thread, the
\* extraction of save_speech included, leave both as they are.
C29_BufferAndTimesInStep ==
    [][ /\ BufferConsistent'
        /\ now' # now
           => /\ chunk_times' = (IF Len(chunk_times) = buffer_size
                                 THEN Tail(chunk_times) ELSE chunk_times) \o <<now'>>
              /\ audio_buffer' = (IF Len(audio_buffer) = buffer_size
                                  THEN Tail(audio_buffer) ELSE audio_buffer) \o <<now'>>
        /\ now' = now => UNCHANGED <<audio_buffer, chunk_times>> ]_vars

\* the full buffer has evicted its oldest frames, and save_speech has just
\* extracted a slice from it
C29_Witness ==
    /\ Len(audio_buffer) = buffer_size
    /\ audio_buffer[1] > 1
    /\ ppc = "check_state"
    /\ speech_data # <<>>


\* ------------------------------------------------- start and stop
\* AudioRecordingService.start/stop (manage_recording.py 381-398) and
\* InteractionService.start/stop (interaction/service.py 86-103), each called
\* by one caller at a time, with the processing threads they create.  A
\* thread is its index in thread_state of its service.
MaxThreads == 2

\* the threads of a service that have not terminated
Alive(s) == {t \in 1..Len(thread_state[s]) : thread_state[s][t] # "dead"}

\* everything but the fields that start and stop touch
lifeRest == <<now, bufVars, plVars, listening, events_received, emitted, script_pos,
              script_mark, false_pipeline, audVars, listeners, calls, hpc, parse_log,
              procVars, intVars, runVars, logVars>>

\* the caller enters start() or stop()
Call(s, op) ==
    /\ lpc[s] = "idle"
    /\ lpc' = [lpc EXCEPT ![s] = op]
    /\ UNCHANGED <<lifeRest, smVars, is_recording, is_running, processing_thread,
                   thread_state>>

\* start: `if not self.is_running`, the flag, and for the recording service
\* manager.start_recording() on its active input stream
StartCheck(s) ==
    /\ lpc[s] = "start_check"
    /\ IF is_running[s]
       THEN /\ lpc' = [lpc EXCEPT ![s] = "idle"]
            /\ UNCHANGED <<is_running, is_recording>>
       ELSE /\ Len(thread_state[s]) < MaxThreads
            /\ is_running' = [is_running EXCEPT ![s] = TRUE]
            /\ is_recording' = IF s = "recording" THEN TRUE ELSE is_recording
            /\ lpc' = [lpc EXCEPT ![s] = "start_thread"]
    /\ UNCHANGED <<lifeRest, smVars, processing_thread, thread_state>>

\* start: the processing thread is created and started
StartThread(s) ==
    /\ lpc[s] = "start_thread"
    /\ thread_state' = [thread_state EXCEPT ![s] = Append(@, "loop")]
    /\ processing_thread' = [processing_thread EXCEPT ![s] = Len(thread_state[s]) + 1]
    /\ lpc' = [lpc EXCEPT ![s] = "idle"]
    /\ UNCHANGED <<lifeRest, smVars, is_recording, is_running>>

\* stop: `if self.is_running` and the flag
StopCheck(s) ==
    /\ lpc[s] = "stop_check"
    /\ IF is_running[s]
       THEN /\ is_running' = [is_running EXCEPT ![s] = FALSE]
            /\ lpc' = [lpc EXCEPT ![s] = "stop_join"]
       ELSE /\ lpc' = [lpc EXCEPT ![s] = "idle"]
            /\ UNCHANGED is_running
    /\ UNCHANGED <<lifeRest, smVars, is_recording, processing_thread, thread_state>>

\* stop: processing_thread.join() returns once that thread has terminated;
\* the recording service then closes its manager (stop_recording and reset)
StopJoin(s) ==
    /\ lpc[s] = "stop_join"
    /\ processing_thread[s] # None => thread_state[s][processing_thread[s]] = "dead"
    /\ IF s = "recording"
       THEN is_recording' = FALSE /\ reset
       ELSE UNCHANGED <<is_recording, smVars>>
    /\ lpc' = [lpc EXCEPT ![s] = "idle"]
    /\ UNCHANGED <<lifeRest, is_running, processing_thread, thread_state>>

\* _process_loop: `while self.is_running` reads False and the thread returns
ProcessLoopExit(s, t) ==
    /\ t \in 1..Len(thread_state[s])
    /\ thread_state[s][t] = "loop"
    /\ ~is_running[s]
    /\ thread_state' = [thread_state EXCEPT ![s][t] = "dead"]
    /\ UNCHANGED <<lifeRest, smVars, is_recording, is_running, processing_thread, lpc>>

\* _process_loop of the recording service, lines 377-379: an exception of
\* the loop body (save_speech writes a file) reaches the handler, which
\* calls self.stop() on the processing thread itself: the flag is cleared
\* and the thread goes on to join; with the flag already cleared stop()
\* does nothing and the thread returns
ProcessLoopError(t) ==
    /\ t \in 1..Len(thread_state["recording"])
    /\ thread_state["recording"][t] = "loop"
    /\ thread_state' = [thread_state EXCEPT !["recording"][t] =
                            IF is_running["recording"] THEN "join" ELSE "dead"]
    /\ is_running' = [is_running EXCEPT !["recording"] = FALSE]
    /\ UNCHANGED <<lifeRest, smVars, is_recording, processing_thread, lpc>>

\* stop, line 396, on the processing thread: joining the current thread
\* raises RuntimeError, which ends the thread before manager.close()
ProcessLoopJoinSelf(t) ==
    /\ t \in 1..Len(thread_state["recording"])
    /\ thread_state["recording"][t] = "join"
    /\ thread_state' = [thread_state EXCEPT !["recording"][t] = "dead"]
    /\ UNCHANGED <<lifeRest, smVars, is_recording, is_running, processing_thread, lpc>>

\* both services as constructed
InitLifecycle ==
    /\ is_recording = FALSE
    /\ ServiceFields(FALSE)
    /\ InitRecording
    /\ InitInteraction
    /\ InitLocals
    /\ listening = FALSE
    /\ script_pos = -1
    /\ script_mark = None
    /\ ppc = "off"

NextLifecycle ==
    \/ \E s \in Services, op \in {"start_check", "stop_check"} : Call(s, op)
    \/ \E s \in Services : StartCheck(s)
    \/ \E s \in Services : StartThread(s)
    \/ \E s \in Services : StopCheck(s)
    \/ \E s \in Services : StopJoin(s)
    \/ \E s \in Services, t \in 1..MaxThreads : ProcessLoopExit(s, t)
    \/ \E t \in 1..MaxThreads : ProcessLoopError(t)
    \/ \E t \in 1..MaxThreads : ProcessLoopJoinSelf(t)

SpecLifecycle == InitLifecycle /\ [][NextLifecycle]_vars

\* C30: start() that finds the service running returns without creating a
\* thread; stop() that finds the service not running returns without changing
\* a field; and whenever stop() returns, is_running is false and no
\* processing thread of the service is alive.
C30_StartStopIdempotent ==
    [][ \A s \in Services :
          /\ (lpc[s] = "start_check" /\ is_running[s] /\ lpc'[s] # lpc[s])
             => /\ lpc'[s] = "idle"
                /\ thread_state'[s] = thread_state[s]
                /\ processing_thread'[s] = processing_thread[s]
                /\ is_running'[s]
          /\ (lpc[s] = "stop_check" /\ ~is_running[s] /\ lpc'[s] # lpc[s])
             => /\ lpc'[s] = "idle"
                /\ UNCHANGED <<is_running, processing_thread, thread_state,
                               is_recording, smVars>>
          /\ (lpc[s] \in {"stop_check", "stop_join"} /\ lpc'[s] = "idle")
             => (~is_running'[s] /\ Alive(s)' = {}) ]_vars


\* ------------------------------------------------------- EventEmitter
\* event_system.py 30-46, driven on its own with on, off and emit in any
\* order.  _listeners[event] is a set: a callback is held once or not at all.
\* everything but the listeners and the calls
emRest == <<now, bufVars, smVars, plVars, listening, events_received, emitted, script_pos,
            script_mark, false_pipeline, audVars, is_recording, svcVars, hpc, parse_log,
            procVars, intVars, runVars, logVars>>

\* variant: _listeners[event] is a list and on appends to it
on_List(event, callback) ==
    /\ listeners[event][callback] < 2
    /\ listeners' = [listeners EXCEPT ![event][callback] = @ + 1]
    /\ UNCHANGED <<emRest, calls>>

\* lines 34-36: set.add
on(event, callback) ==
    /\ listeners' = [listeners EXCEPT ![event][callback] = 1]
    /\ UNCHANGED <<emRest, calls>>

\* lines 38-41: remove the callback when the set holds it
off(event, callback) ==
    /\ listeners' = IF listeners[event][callback] > 0
                    THEN [listeners EXCEPT ![event][callback] = 0]
                    ELSE listeners
    /\ UNCHANGED <<emRest, calls>>

\* lines 43-46: every element of _listeners[event] is called with the arguments
emit(event, args) ==
    /\ calls' = [c \in Callbacks |-> [i \in 1..listeners[event][c] |-> args]]
    /\ UNCHANGED <<emRest, listeners>>

NextEmitter ==
    \/ \E e \in SpeechEvent, c \in Callbacks : on(e, c)
    \/ \E e \in SpeechEvent, c \in Callbacks : off(e, c)
    \/ \E e \in SpeechEvent, a \in {"test text", "other text"} : emit(e, a)

SpecEmitter == InitLifecycle /\ [][NextEmitter]_vars

\* C31: an emit of event e with args calls each callback registered for e
\* exactly once with args and calls no other callback; an off of a callback
\* that is not registered for the event leaves all registrations unchanged.
C31_EmitCallsRegisteredOnce ==
    [][ /\ \A e \in SpeechEvent, a \in {"test text", "other text"} :
             emit(e, a) => \A c \in Callbacks :
                 calls'[c] = IF listeners[e][c] > 0 THEN <<a>> ELSE <<>>
        /\ \A e \in SpeechEvent, c \in Callbacks :
             (off(e, c) /\ listeners[e][c] = 0) => listeners' = listeners ]_vars

\* an emit has called callback1 alone, while callback2 is registered only
\* for the other event and callback3 is not registered for this one
C31_Witness ==
    /\ calls["callback1"] = <<"test text">>
    /\ calls["callback2"] = <<>>
    /\ calls["callback3"] = <<>>
    /\ listeners["SPEECH_STARTED"]["callback1"] = 1
    /\ listeners["SPEECH_ENDED"]["callback2"] = 1
    /\ listeners["SPEECH_STARTED"]["callback2"] = 0
    /\ listeners["SPEECH_STARTED"]["callback3"] = 0


\* C32: the reset of the processing loop leaves both timestamps unset and
\* the five speech flags false, and changes neither the audio buffer, nor
\* the frame timestamps, nor the id, state and processing flag of the pipeline.
C32_ResetFrame ==
    [][ ProcessLoopReset
        => /\ speech_start_time' = None
           /\ speech_end_time' = None
           /\ ~speech_start_potential' /\ ~speech_end_potential'
           /\ ~speech_started' /\ ~speech_detected' /\ ~speech_ended'
           /\ UNCHANGED <<audio_buffer, chunk_times, current_pipeline_id, pipeline_state,
                          pipeline_processing>> ]_vars

\* the loop has reset the machine after a confirmed end: the flags are
\* clear while the buffer and the confirmed pipeline are still there
C32_Witness ==
    /\ ppc = "poll"
    /\ speech_start_time = None
    /\ speech_end_time = None
    /\ ~speech_ended /\ ~speech_detected
    /\ pipeline_state = "confirmed"
    /\ current_pipeline_id # None
    /\ pipeline_processing
    /\ Len(audio_buffer) >= 3


\* C33: a frame whose VAD result carries both start and end, arriving while
\* no potential start, no speech and no potential end is pending, changes no
\* speech flag, no timestamp and no pipeline field and emits no event.
C33_BlipBeforeStartup ==
    [][ \A dt \in 1..MaxDt :
          (~speech_start_potential /\ ~speech_started /\ ~speech_end_potential
             /\ ContinuousRecording("both", dt))
          => /\ UNCHANGED <<smVars, plVars>>
             /\ emitted' = <<>> ]_vars

\* C34: a frame whose VAD result carries both start and end, arriving while
\* speech has started and a potential end is pending, moves speech_end_time
\* to the time of the frame and leaves the other flags and the pipeline alone.
C34_BlipBeforeEnd ==
    [][ \A dt \in 1..MaxDt :
          (speech_started /\ speech_end_potential /\ ContinuousRecording("both", dt))
          => /\ speech_end_time' = now'
             /\ UNCHANGED <<speech_start_time, speech_start_potential, speech_end_potential,
                            speech_started, speech_detected, speech_ended, plVars>> ]_vars


\* C35: in every state of the running service, the capture thread's
\* transitions interleaved with the reset of the processing thread,
\* speech_start_potential and speech_started are not both true, and
\* speech_end_potential is true only while speech_started is true.
C35_FlagsConsistent ==
    /\ ~(speech_start_potential /\ speech_started)
    /\ speech_end_potential => speech_started


\* ------------------------------------- reset, statement by statement
\* The capture loop against RecordingManager.reset (lines 293-302) run by
\* the processing loop (lines 371-373), one assignment of reset per step.
\* The processing thread is at "poll" outside reset; the STT and response
\* work of the loop only delays its test of speech_ended.

\* a none frame would subtract an unset time: the branch of lines 127-128
\* or of lines 151-152 is entered with its timestamp None
UnsetCompare ==
    \/ speech_start_potential /\ ~speech_started /\ speech_start_time = None
    \/ speech_started /\ speech_end_potential /\ speech_end_time = None

\* one iteration of the capture loop that raises nothing
FrameChecked ==
    /\ script_pos = -1
    /\ \E vad \in VadResults, dt \in 1..MaxDt :
         /\ ~(vad = "none" /\ UnsetCompare)
         /\ ContinuousRecording(vad, dt)
    /\ UNCHANGED <<script_pos, script_mark>>

\* one iteration whose comparison raises TypeError: the frame is in the
\* buffer (lines 98-101), the handler of lines 178-181 stops the loop
FrameTypeError ==
    /\ is_recording
    /\ UnsetCompare
    /\ \E dt \in 1..MaxDt :
         /\ now + dt <= MaxTime
         /\ now' = now + dt
         /\ audio_buffer' = DequeAppend(audio_buffer, now + dt)
         /\ chunk_times' = DequeAppend(chunk_times, now + dt)
    /\ is_recording' = FALSE
    /\ UNCHANGED <<smVars, plVars, listening, events_received, emitted, script_pos,
                   script_mark, false_pipeline, audVars, svcVars, listeners, calls, hpc,
                   parse_log, procVars, intVars, runVars, logVars>>

\* line 371: the loop reads speech_ended true and calls reset
ResetBegin ==
    /\ ppc = "poll"
    /\ speech_ended
    /\ ppc' = "reset_1"
    /\ UNCHANGED <<now, bufVars, smVars, plVars, evVars, previous_speech_end_potential,
                   pipeline_id, sv_start_time, sv_end_time, speech_data, intVars, runVars,
                   logVars>>

\* lines 296-302: the k-th assignment of reset
ResetStatement(k) ==
    /\ ppc = <<"reset_1", "reset_2", "reset_3", "reset_4", "reset_5", "reset_6", "reset_7">>[k]
    /\ ppc' = <<"reset_2", "reset_3", "reset_4", "reset_5", "reset_6", "reset_7", "poll">>[k]
    /\ speech_start_time' = IF k = 1 THEN None ELSE speech_start_time
    /\ speech_end_time' = IF k = 2 THEN None ELSE speech_end_time
    /\ speech_start_potential' = IF k = 3 THEN FALSE ELSE speech_start_potential
    /\ speech_end_potential' = IF k = 4 THEN FALSE ELSE speech_end_potential
    /\ speech_started' = IF k = 5 THEN FALSE ELSE speech_started
    /\ speech_detected' = IF k = 6 THEN FALSE ELSE speech_detected
    /\ speech_ended' = IF k = 7 THEN FALSE ELSE speech_ended
    /\ UNCHANGED <<now, bufVars, plVars, evVars, previous_speech_end_potential,
                   pipeline_id, sv_start_time, sv_end_time, speech_data, intVars, runVars,
                   logVars>>

NextReset ==
    \/ FrameChecked
    \/ FrameTypeError
    \/ ResetBegin
    \/ \E k \in 1..7 : ResetStatement(k)

SpecReset == Init /\ [][NextReset]_vars

\* C36: no frame step compares against an unset speech_start_time or
\* speech_end_time: every frame step, whatever part of a reset came before
\* it, leaves the capture loop running.
C36_NoUnsetComparison ==
    [][ now' # now => is_recording' ]_vars


\* C37: the reset that the processing loop performs after a confirmed end is
\* applied only while the machine is still idle after that end: at the
\* reset step no potential start, no started speech and no potential end of
\* a later utterance is pending.
C37_ResetOnlyWhileIdle ==
    [][ ProcessLoopReset
        => (~speech_start_potential /\ ~speech_started /\ ~speech_end_potential) ]_vars


\* -------------------------------- stream completion against SPEECH_ENDED
\* The end of _handle_transcription (manager.py 308-331) on the response
\* thread against _handle_speech_ended (manager.py 100-131) on the capture
\* thread, each in two steps, on the streams of the full system and the
\* scenario stream.

\* lines 308-320: the response is stored, the flag cleared, the tentative
\* history extended
FinishStore ==
    /\ ppc = "ht_finish"
    /\ current_response' = accumulated_response
    /\ json_processed' = FALSE
    /\ LET said == accumulated_assistant_response # <<>>
           tent == IF said THEN Append(messages_tentative,
                                       AssistantMessage(accumulated_assistant_response))
                   ELSE messages_tentative
       IN /\ messages_tentative' = tent
          /\ messages' = IF said /\ messages_aliased THEN tent ELSE messages
    /\ ppc' = "ht_confirmed"
    /\ UNCHANGED <<noRecVars, messages_aliased, current_mode, queued_audio, played, runVars,
                   logVars>>

\* lines 327-331: with the pipeline confirmed the history is committed, the
\* queue played and the stored response parsed
FinishConfirmed ==
    /\ ppc = "ht_confirmed"
    /\ IF pipeline_state = "confirmed"
       THEN /\ play_queued_audio
            /\ parse_accumulated_response(current_response, messages_tentative,
                                          messages_tentative, TRUE)
            /\ json_processed' = TRUE
            /\ parse_log' = Append(parse_log, current_response)
            /\ finished_pipeline' = pipeline_id
       ELSE UNCHANGED <<messages, messages_tentative, messages_aliased, current_mode,
                        queued_audio, played, json_processed, parse_log, finished_pipeline>>
    /\ ppc' = "store_prev"
    /\ LocalsInit(<<>>)
    /\ UNCHANGED <<now, bufVars, smVars, plVars, listening, events_received, emitted,
                   script_pos, script_mark, false_pipeline, audVars, is_recording, svcVars,
                   listeners, calls, hpc, previous_speech_end_potential, pipeline_id,
                   sv_start_time, sv_end_time, speech_data, current_response, tts_calls,
                   stt_pipeline>>

\* the frame that confirms the end (manage_recording.py 150-158) and the
\* handler it calls, up to and including its parse (manager.py 100-115)
SpeechEndedParse ==
    /\ hpc = "idle"
    /\ is_recording /\ speech_started /\ speech_end_potential
    /\ \E dt \in 1..MaxDt :
         /\ now + dt <= MaxTime
         /\ now + dt - speech_end_time >= speech_end_threshold
         /\ now' = now + dt
         /\ audio_buffer' = DequeAppend(audio_buffer, now + dt)
         /\ chunk_times' = DequeAppend(chunk_times, now + dt)
    /\ speech_started' = FALSE
    /\ speech_end_potential' = FALSE
    /\ pipeline_state' = IF current_pipeline_id # None THEN "confirmed" ELSE pipeline_state
    /\ speech_ended' = TRUE
    /\ emitted' = <<"SPEECH_ENDED">>
    /\ play_queued_audio
    /\ IF ~json_processed
       THEN /\ parse_accumulated_response(current_response, messages_tentative,
                                          messages_tentative, TRUE)
            /\ json_processed' = TRUE
            /\ parse_log' = Append(parse_log, current_response)
       ELSE UNCHANGED <<messages, messages_tentative, messages_aliased, current_mode,
                        json_processed, parse_log>>
    /\ hpc' = "he_clear"
    /\ UNCHANGED <<speech_start_time, speech_end_time, speech_start_potential,
                   speech_detected, current_pipeline_id, pipeline_processing, listening,
                   events_received, script_pos, script_mark, false_pipeline, audVars,
                   is_recording, svcVars, listeners, calls, procVars, current_response,
                   runVars, logVars>>

\* manager.py 128-130: the handler clears the completion flags
SpeechEndedClear ==
    /\ hpc = "he_clear"
    /\ json_processed' = FALSE
    /\ current_response' = <<>>
    /\ hpc' = "idle"
    /\ UNCHANGED <<now, bufVars, smVars, plVars, listening, events_received, emitted,
                   script_pos, script_mark, false_pipeline, audVars, is_recording, svcVars,
                   listeners, calls, parse_log, procVars, messages, messages_tentative,
                   messages_aliased, current_mode, queued_audio, played, runVars, logVars>>

NextParse ==
    \/ HandleTranscriptionChunk
    \/ process_tts
    \/ queue_audio
    \/ HandleTranscriptionPlay
    \/ FinishStore
    \/ FinishConfirmed
    \/ SpeechEndedParse
    \/ SpeechEndedClear

SpecParse == InitRun(Streams \cup {ScenarioStream}) /\ [][NextParse]_vars

\* C38: the text of a completed response is parsed at most once: no
\* non-empty text occurs twice among the texts parse_accumulated_response
\* was run on.
C38_ParsedAtMostOnce ==
    \A i, j \in 1..Len(parse_log) :
        (i < j /\ parse_log[i] # <<>>) => parse_log[i] # parse_log[j]


\* C39: a confirmed pipeline has had its STT request issued, or the
\* processing loop has observed its potential end as a rising edge and is on
\* its way to the request (saving and extracting the segment).
C39_ConfirmedWasTranscribed ==
    (pipeline_state = "confirmed" /\ current_pipeline_id # None)
    => \/ stt_pipeline = current_pipeline_id
       \/ /\ pipeline_id = current_pipeline_id
          /\ ppc \in {"save", "extract", "check_state", "stt"}


\* C40: what a response run has sent to synthesis when its stream is consumed
\* depends only on the concatenated text, whatever its split into deltas:
\* the words dispatched are exactly the words of the assistant_response field
\* of the text, in order, those that arrived in the delta of the shape marker
\* or of the opening quote included.
C40_SpokenDependsOnTextOnly ==
    LET IsWord(tok) == tok \notin (Terminators \cup Closers \cup {" ", ValueOpen, HdrAssistant})
    IN (ppc = "ht_finish" /\ accumulated_response # <<>>
          /\ accumulated_response[1] = HdrAssistant)
       => SelectSeq(Flatten(tts_calls), IsWord)
            = SelectSeq(ResponseField(accumulated_response), IsWord)

====
